---- MODULE Spec2Model ----
(***************************************************************************)
(* A model of the caption layout engine of onesub                          *)
(* (src/src/onesub/rendering.py): the line grouper, the style resolver,    *)
(* the line wrapper and the reveal engine.                                 *)
(*                                                                         *)
(* Units.  Times are integers counting half milliseconds (0.0005 s), so    *)
(* 0.01 s = 20, 0.001 s = 2 and 0.1 s = 200.  Font sizes are integers      *)
(* counting half points, so that a fractional bound such as 24.5 pt is 49. *)
(* An optional value (Optional[...] in the source) is a set: {} for None   *)
(* and {v} for the value v.                                                *)
(***************************************************************************)
EXTENDS Integers, Sequences, FiniteSets, TLC

VARIABLES
    pc,             \* position of the pipeline: "init" or the operation applied
    transcript,     \* Transcript.segments
    display,        \* DisplayConfig
    caption_lines,  \* result of _build_caption_lines
    line_data,      \* the CaptionLine being rendered (loop of _build_dialogue_entries)
    analysis,       \* AudioAnalysis.words
    config,         \* RenderConfig
    segment_style,  \* the SegmentStyle active for line_data, or None
    size_mapping,   \* the SizeMapping effective for line_data
    word_infos,     \* result of _compute_line_markups: word index -> WordRender
    placements,     \* the time-ordered placement list of _load_placements
    placements_by_segment,  \* the segment-keyed placements of _load_placements
    normalized,     \* result of _normalize_write_on_keyframes for line_data
    entries,        \* the DialogueEntry list emitted for line_data
    tick,           \* the entries' times count 1/tick of a time unit
    script,         \* result of build_ass_script: the header, then the Dialogue lines
    payload         \* the placements file: its list of items, or None without one

groupVars == <<transcript, display, caption_lines>>
styleVars == <<analysis, size_mapping>>
revealVars == <<placements, placements_by_segment, normalized, entries, tick, script, payload>>
vars == <<pc, groupVars, line_data, config, segment_style, word_infos, styleVars, revealVars>>

\* the variables of a stage that a specification does not exercise
IdleGroup ==
    /\ transcript = <<>>
    /\ caption_lines = <<>>
IdleReveal ==
    /\ placements = <<>>
    /\ placements_by_segment = <<>>
    /\ normalized = <<>>
    /\ entries = <<>>
    /\ tick = 1
    /\ script = <<>>
    /\ payload = {}

(***************************************************************************)
(* Bounds of the model.                                                    *)
(***************************************************************************)
MaxWords == 3
MaxWindows == 2
MaxKeyframes == 2
\* the grid of keyframe values: the integer v stands for the value v / ValueOne
ValueOne == 2

(***************************************************************************)
(* Program constants, in the units above.                                  *)
(***************************************************************************)
DefaultBatch == 6          \* batch_size = 6
MinInterval == 200         \* max(interval, 0.1)
MinDuration == 20          \* start + 0.01
MergeWindow == 2           \* abs(...) < 0.001
EpsDen == 10000            \* epsilon = 0.0001 = 1 / EpsDen

(***************************************************************************)
(* Helpers.                                                                *)
(***************************************************************************)
Max(a, b) == IF a >= b THEN a ELSE b
Min(a, b) == IF a <= b THEN a ELSE b
Abs(a) == IF a < 0 THEN 0 - a ELSE a
None == {}
Some(v) == {v}
Last(s) == s[Len(s)]

RECURSIVE Flatten(_)
\* concatenation of a sequence of sequences
Flatten(ss) == IF ss = <<>> THEN <<>> ELSE Head(ss) \o Flatten(Tail(ss))

RECURSIVE SeqsUpTo(_, _)
\* all sequences over S of length 0..n
SeqsUpTo(S, n) ==
    IF n = 0 THEN {<<>>}
    ELSE LET shorter == SeqsUpTo(S, n - 1)
         IN  shorter \cup {Append(s, x) : s \in {t \in shorter : Len(t) = n - 1}, x \in S}

(***************************************************************************)
(* Data model (models.py, config.py, rendering.py).                        *)
(***************************************************************************)
WordTiming(i, t, s, e) == [index |-> i, text |-> t, start |-> s, end |-> e]
Segment(i, s, e, ws) == [index |-> i, start |-> s, end |-> e, words |-> ws]
ManualWindow(s, e, id, ids) == [start |-> s, end |-> e, id |-> id, word_ids |-> ids]
CaptionLine(s, e, ws, sid) == [start |-> s, end |-> e, words |-> ws, segment_id |-> sid]
DisplayConfig(m, wpc, iv, rw, wins) ==
    [mode |-> m, words_per_caption |-> wpc, interval_seconds |-> iv,
     rolling_window |-> rw, windows |-> wins]
DefaultDisplay == DisplayConfig("segment", 6, 6000, 6, <<>>)

\* Transcript.flatten_words
flatten_words(segments) == Flatten([k \in 1..Len(segments) |-> segments[k].words])

(***************************************************************************)
(* Line grouper.                                                           *)
(***************************************************************************)
\* _group_by_segment: one line per segment that has words
\* (mutant: the empty-segment test is dropped)
KeepSegment_all(segment) == TRUE
KeepSegment(segment) == segment.words # <<>>
SegmentLine(segment) ==
    CaptionLine(segment.start, segment.end, segment.words, Some(segment.index))
_group_by_segment(segments) ==
    LET kept == SelectSeq(segments, KeepSegment)
    IN  [k \in 1..Len(kept) |-> SegmentLine(kept[k])]

\* _group_fixed_count: range(0, len(words), batch_size), chunk = words[idx:idx+batch_size]
EffectiveBatch(batch_size) == IF batch_size <= 0 THEN DefaultBatch ELSE batch_size
\* (mutant: the slice is one word too long, words[idx : idx + batch_size + 1])
ChunkEnd_long(words, first, bs) == Min(Len(words), first + bs)
ChunkEnd(words, first, bs) == Min(Len(words), first + bs - 1)
_group_fixed_count(words, batch_size) ==
    LET bs == EffectiveBatch(batch_size)
        n  == (Len(words) + bs - 1) \div bs
    IN  [k \in 1..n |->
            LET first == (k - 1) * bs + 1
                chunk == SubSeq(words, first, ChunkEnd(words, first, bs))
            IN  CaptionLine(chunk[1].start, Last(chunk).end, chunk, None)]

\* the loop of _group_fixed_interval, from word i on
RECURSIVE FixedIntervalLoop(_, _, _, _, _, _)
JoinsWindow(word, window_end) == word.start < window_end
FixedIntervalLoop(words, i, interval, window_end, chunk, lines) ==
    IF i > Len(words)
    THEN IF chunk # <<>>
         THEN Append(lines, CaptionLine(chunk[1].start, Last(chunk).end, chunk, None))
         ELSE lines
    ELSE LET word == words[i]
         IN  IF JoinsWindow(word, window_end)
             THEN FixedIntervalLoop(words, i + 1, interval, window_end,
                                    Append(chunk, word), lines)
             ELSE FixedIntervalLoop(words, i + 1, interval, word.start + interval,
                                    <<word>>,
                                    IF chunk # <<>>
                                    THEN Append(lines, CaptionLine(chunk[1].start,
                                                    Last(chunk).end, chunk, None))
                                    ELSE lines)

\* (mutant: the interval is taken as given)
EffectiveInterval_raw(interval) == interval
\* interval = max(interval, 0.1)
EffectiveInterval(interval) == Max(interval, MinInterval)
_group_fixed_interval(words, interval) ==
    IF words = <<>> THEN <<>>
    ELSE LET iv == EffectiveInterval(interval)
         IN  FixedIntervalLoop(words, 1, iv, words[1].start + iv, <<>>, <<>>)

\* _group_rolling
EffectiveWindowSize(window_size) == Max(window_size, 1)
\* (mutant: the slice starts one word earlier, words[idx - window_size : idx + 1])
RollingFirst_wide(idx, ws) == Max(1, idx - ws)
\* start_index = max(0, idx - window_size + 1)
RollingFirst(idx, ws) == Max(1, idx - ws + 1)
_group_rolling(words, window_size) ==
    LET ws == EffectiveWindowSize(window_size)
        total == Len(words)
    IN  [idx \in 1..total |->
            LET word == words[idx]
                chunk == SubSeq(words, RollingFirst(idx, ws), idx)
                end_time == IF idx + 1 <= total
                            THEN Max(word.start, words[idx + 1].start)
                            ELSE word.end
            IN  CaptionLine(word.start, end_time, chunk, None)]

\* word_lookup = {word.index: word for word in words}: the last word of an index wins
WordLookup(words, word_id) ==
    LET hits == {k \in 1..Len(words) : words[k].index = word_id}
    IN  IF hits = {} THEN None
        ELSE Some(words[CHOOSE k \in hits : \A j \in hits : j <= k])

RECURSIVE PinnedChunk(_, _)
\* the word_ids branch of _group_manual_windows
PinnedChunk(words, word_ids) ==
    IF word_ids = <<>> THEN <<>>
    ELSE LET hit == WordLookup(words, Head(word_ids))
             rest == PinnedChunk(words, Tail(word_ids))
         IN  IF hit = None THEN rest ELSE <<CHOOSE w \in hit : TRUE>> \o rest

RECURSIVE SkipBefore(_, _, _)
\* while current_word and current_word.end <= window.start: advance
SkipBefore(words, cursor, window) ==
    IF cursor <= Len(words) /\ words[cursor].end <= window.start
    THEN SkipBefore(words, cursor + 1, window)
    ELSE cursor

RECURSIVE TakeInside(_, _, _)
\* while current_word and current_word.start < window.end: take and advance
TakeInside(words, cursor, window) ==
    IF cursor <= Len(words) /\ words[cursor].start < window.end
    THEN TakeInside(words, cursor + 1, window)
    ELSE cursor

\* the iterator is not rewound between windows (mutant: every window scans again
\* from the word the previous window started at)
CursorAfter_rewind(words, cursor, window) == SkipBefore(words, cursor, window)
\* the position of current_word after a window without word_ids has scanned
CursorAfter(words, cursor, window) ==
    TakeInside(words, SkipBefore(words, cursor, window), window)

RECURSIVE ManualLoop(_, _, _, _)
\* the loop of _group_manual_windows over windows[w..]; cursor is the position of
\* current_word (Len(words) + 1 when the iterator is exhausted)
ManualLoop(words, windows, w, cursor) ==
    IF w > Len(windows) THEN <<>>
    ELSE LET window == windows[w]
             pinned == window.word_ids # <<>>
             from   == SkipBefore(words, cursor, window)
             chunk  == IF pinned THEN PinnedChunk(words, window.word_ids)
                       ELSE SubSeq(words, from, TakeInside(words, from, window) - 1)
             next   == IF pinned THEN cursor ELSE CursorAfter(words, cursor, window)
             rest   == ManualLoop(words, windows, w + 1, next)
         IN  IF chunk # <<>>
             THEN <<CaptionLine(window.start, window.end, chunk, window.id)>> \o rest
             ELSE rest

_group_manual_windows(words, windows) == ManualLoop(words, windows, 1, 1)

\* _build_caption_lines
_build_caption_lines(segments, disp) ==
    LET words == flatten_words(segments)
    IN  IF disp.windows # <<>> THEN _group_manual_windows(words, disp.windows)
        ELSE IF disp.mode = "fixed_count"
             THEN _group_fixed_count(words, disp.words_per_caption)
        ELSE IF disp.mode = "fixed_interval"
             THEN _group_fixed_interval(words, disp.interval_seconds)
        ELSE IF disp.mode = "rolling"
             THEN _group_rolling(words, disp.rolling_window)
        ELSE _group_by_segment(segments)

(***************************************************************************)
(* Style resolver.  A size is a number of half points; a loudness (rms) is *)
(* an integer in an arbitrary unit, only ratios of differences matter.     *)
(* A word's markup is modelled by what the layout reads from it: the       *)
(* integer of its \fs tag (points) and its text; fonts and colours are not *)
(* modelled.                                                               *)
(***************************************************************************)
WordDynamics(i, r) == [word_index |-> i, rms |-> r]
SizeMapping(lo, hi) == [min_size |-> lo, max_size |-> hi]
SegmentStyle(lo, hi, ls, wo) ==
    [size_min |-> lo, size_max |-> hi, line_spacing |-> ls, write_on |-> wo]
WordRender(m, sz) == [markup |-> m, size |-> sz]
RenderConfig(sm, ls, al, rm, lims) ==
    [size_mapping |-> sm, line_spacing |-> ls, alignment |-> al,
     reveal_mode |-> rm, line_word_limits |-> lims]
DefaultConfig == RenderConfig(SizeMapping(48, 96), 0, 7, "block", <<>>)
NoLine == CaptionLine(0, 0, <<>>, None)

\* SizeMapping.clamp, on values with a common denominator den > 0
SizeClamp(mapping, value, den) ==
    Min(mapping.max_size * den, Max(mapping.min_size * den, value))

\* Python's round() of the rational p / q (q > 0): to the nearest integer, a tie to
\* the even one
Round(p, q) ==
    LET f == p \div q
        r == p - f * q
    IN  IF 2 * r < q THEN f
        ELSE IF 2 * r > q THEN f + 1
        ELSE IF f % 2 = 0 THEN f ELSE f + 1

\* AudioAnalysis.rms_min, rms_max: min/max over all entries, 0.0 when there is none
RmsValues(words) == {words[k].rms : k \in 1..Len(words)}
rms_min(words) ==
    IF words = <<>> THEN 0
    ELSE CHOOSE r \in RmsValues(words) : \A q \in RmsValues(words) : r <= q
rms_max(words) ==
    IF words = <<>> THEN 0
    ELSE CHOOSE r \in RmsValues(words) : \A q \in RmsValues(words) : r >= q

\* dynamics_map = {item.word_index: item for item in analysis.words}; .get(index)
DynamicsGet(words, index) ==
    LET hits == {k \in 1..Len(words) : words[k].word_index = index}
    IN  IF hits = {} THEN None
        ELSE Some(words[CHOOSE k \in hits : \A j \in hits : j <= k])

\* (mutant: the bounds are never swapped)
_effective_size_mapping_unswapped(base, style) ==
    IF style = None THEN base
    ELSE LET st == CHOOSE x \in style : TRUE
         IN  SizeMapping(IF st.size_min # None THEN CHOOSE x \in st.size_min : TRUE
                         ELSE base.min_size,
                         IF st.size_max # None THEN CHOOSE x \in st.size_max : TRUE
                         ELSE base.max_size)
\* _effective_size_mapping
_effective_size_mapping(base, style) ==
    IF style = None THEN base
    ELSE LET st == CHOOSE x \in style : TRUE
             lo == IF st.size_min # None THEN CHOOSE x \in st.size_min : TRUE
                   ELSE base.min_size
             hi == IF st.size_max # None THEN CHOOSE x \in st.size_max : TRUE
                   ELSE base.max_size
         IN  IF hi < lo THEN SizeMapping(hi, lo) ELSE SizeMapping(lo, hi)

\* _extract_size_from_markup: \\fs(\d+) matches the digits of a non-negative size
\* and nothing of "\fs-3"; without a match the size is float(min_size)
_extract_size_from_markup(markup, mapping) ==
    IF markup.fs # None /\ (CHOOSE n \in markup.fs : TRUE) >= 0
    THEN 2 * (CHOOSE n \in markup.fs : TRUE)
    ELSE mapping.min_size

\* the size tag of _word_markup: int(round(size)) in points, size in half points
\* being the rational SizeClamp(...) / den
SizeTag(mapping, rms, lo, hi) ==
    LET flat == hi <= lo
        den  == IF flat THEN 2 ELSE hi - lo
        num  == IF flat THEN 1 ELSE Max(0, Min(den, rms - lo))
        size == SizeClamp(mapping, mapping.min_size * den
                                    + num * (mapping.max_size - mapping.min_size), den)
    IN  Round(size, 2 * den)

\* a markup string: the size of its tag block (None: no tag block), the escaped
\* visible text and the escaped text hidden behind the transparent tag
Markup(fs, text, hidden) == [fs |-> fs, text |-> text, hidden |-> hidden]

RECURSIVE Replace(_, _, _)
\* str.replace for a pattern of one character: every occurrence of old, left to right
Replace(text, old, new) ==
    IF text = <<>> THEN <<>>
    ELSE (IF Head(text) = old THEN new ELSE <<Head(text)>>) \o Replace(Tail(text), old, new)

\* the replacements in the other order: braces first, backslashes last
_escape_ass_text_late(text) ==
    Replace(Replace(Replace(text, "{", <<"\\", "{">>), "}", <<"\\", "}">>),
            "\\", <<"\\", "\\">>)

\* text.replace("\\", r"\\").replace("{", r"\{").replace("}", r"\}")
_escape_ass_text(text) ==
    Replace(Replace(Replace(text, "\\", <<"\\", "\\">>), "{", <<"\\", "{">>),
            "}", <<"\\", "}">>)

\* _word_markup
_word_markup(word, dynamics, mapping, lo, hi) ==
    Markup(Some(SizeTag(mapping, dynamics.rms, lo, hi)), _escape_ass_text(word.text), <<>>)

\* _fallback_markup
_fallback_markup(word, mapping) ==
    Markup(Some(Round(mapping.min_size, 2)), _escape_ass_text(word.text), <<>>)

\* the loudness range _compute_line_markups passes to _word_markup
LineValues(line, words) ==
    {(CHOOSE d \in DynamicsGet(words, line.words[k].index) : TRUE).rms :
        k \in {j \in 1..Len(line.words) : DynamicsGet(words, line.words[j].index) # None}}
LocalMin(line, words, global_min) ==
    LET values == LineValues(line, words)
    IN  IF values = {} THEN global_min
        ELSE CHOOSE r \in values : \A q \in values : r <= q
LocalMax(line, words, global_max) ==
    LET values == LineValues(line, words)
    IN  IF values = {} THEN global_max
        ELSE CHOOSE r \in values : \A q \in values : r >= q
UseLocal(line, words, global_min, global_max) ==
    LocalMax(line, words, global_max) > LocalMin(line, words, global_min)
RangeMin(line, words, global_min, global_max) ==
    IF UseLocal(line, words, global_min, global_max)
    THEN LocalMin(line, words, global_min) ELSE global_min
RangeMax(line, words, global_min, global_max) ==
    IF UseLocal(line, words, global_min, global_max)
    THEN LocalMax(line, words, global_max) ELSE global_max

\* _compute_line_markups: a later word of the same index overwrites an earlier one
_compute_line_markups(line, words, mapping, global_min, global_max) ==
    LET lo == RangeMin(line, words, global_min, global_max)
        hi == RangeMax(line, words, global_min, global_max)
        indexes == {line.words[k].index : k \in 1..Len(line.words)}
    IN  [i \in indexes |->
            LET k == CHOOSE k \in 1..Len(line.words) :
                        /\ line.words[k].index = i
                        /\ \A j \in 1..Len(line.words) : line.words[j].index = i => j <= k
                word == line.words[k]
                dynamics == DynamicsGet(words, i)
                markup == IF dynamics # None
                          THEN _word_markup(word, CHOOSE d \in dynamics : TRUE,
                                            mapping, lo, hi)
                          ELSE _fallback_markup(word, mapping)
            IN  WordRender(markup, _extract_size_from_markup(markup, mapping))]

IdleStyle ==
    /\ analysis = <<>>
    /\ size_mapping = DefaultConfig.size_mapping

(***************************************************************************)
(* Line wrapper and markup assembly.  A rendered sub-line is the sequence  *)
(* of its tokens, one per word: the word's index and its markup; the       *)
(* separators and the letter-spacing prefix between tokens are not         *)
(* modelled.                                                               *)
(***************************************************************************)
Placement(e, x, y, sid) == [end |-> e, x |-> x, y |-> y, segment_id |-> sid]
DialogueEntry(s, e, t) == [start |-> s, end |-> e, text |-> t]
Token(word, infos) == [word |-> word.index, markup |-> infos[word.index].markup]
\* the text of an entry: the \pos tag, the \an tag when there is one, the sub-lines
EntryText(x, y, an, lines) == [pos |-> <<x, y>>, an |-> an, lines |-> lines]

\* size = info.size if info else 0.0
InfoSize(infos, word) ==
    IF word.index \in DOMAIN infos THEN infos[word.index].size ELSE 0

\* (mutant: once the list is used up its last limit stays in force)
NextLimit_repeat(limits, limit_index) ==
    IF limit_index + 1 < Len(limits) THEN Some(limits[limit_index + 2])
    ELSE IF limits = <<>> THEN {} ELSE Some(limits[Len(limits)])
\* limit_index + 1 < len(line_limits): the limit of the next sub-line
NextLimit(limits, limit_index) ==
    IF limit_index + 1 < Len(limits) THEN Some(limits[limit_index + 2]) ELSE None

\* the word starts a new sub-line
Wraps(current_line, current_max, current_limit, size) ==
    /\ current_line # <<>>
    /\ \/ size > current_max
       \/ current_limit # None /\ Len(current_line) >= (CHOOSE l \in current_limit : TRUE)

\* (mutant: the sub-line still open when the words run out is not appended)
RECURSIVE LayoutLoop_open(_, _, _, _, _, _, _, _, _)
LayoutLoop_open(words, i, infos, limits, lines, current_line, current_max, limit_index, current_limit) ==
    IF i > Len(words) THEN lines
    ELSE LET word == words[i]
             size == InfoSize(infos, word)
         IN  IF ~Wraps(current_line, current_max, current_limit, size)
             THEN LayoutLoop_open(words, i + 1, infos, limits, lines,
                                  Append(current_line, word), Max(current_max, size),
                                  limit_index, current_limit)
             ELSE LayoutLoop_open(words, i + 1, infos, limits, Append(lines, current_line),
                                  <<word>>, size,
                                  IF limit_index + 1 < Len(limits)
                                  THEN limit_index + 1 ELSE limit_index,
                                  NextLimit(limits, limit_index))

RECURSIVE LayoutLoop(_, _, _, _, _, _, _, _, _)
\* the loop of _layout_words_by_size from word i on; limit_index counts from 0
LayoutLoop(words, i, infos, limits, lines, current_line, current_max, limit_index, current_limit) ==
    IF i > Len(words)
    THEN IF current_line # <<>> THEN Append(lines, current_line) ELSE lines
    ELSE LET word == words[i]
             size == InfoSize(infos, word)
         IN  IF ~Wraps(current_line, current_max, current_limit, size)
             THEN LayoutLoop(words, i + 1, infos, limits, lines,
                             Append(current_line, word), Max(current_max, size),
                             limit_index, current_limit)
             ELSE LayoutLoop(words, i + 1, infos, limits, Append(lines, current_line),
                             <<word>>, size,
                             IF limit_index + 1 < Len(limits)
                             THEN limit_index + 1 ELSE limit_index,
                             NextLimit(limits, limit_index))

\* (mutant: a last sub-line of one word is joined to the sub-line before it)
_layout_words_by_size_joined(words, infos, limits) ==
    LET ls == LayoutLoop(words, 1, infos, limits, <<>>, <<>>, 0, 0,
                         IF 0 < Len(limits) THEN Some(limits[1]) ELSE None)
        n == Len(ls)
    IN  IF n >= 2 /\ Len(ls[n]) = 1
        THEN SubSeq(ls, 1, n - 2) \o <<ls[n - 1] \o ls[n]>>
        ELSE ls

_layout_words_by_size(words, infos, limits) ==
    LayoutLoop(words, 1, infos, limits, <<>>, <<>>, 0, 0,
               IF 0 < Len(limits) THEN Some(limits[1]) ELSE None)

RECURSIVE MaxHeight(_, _, _, _)
\* max_height = 0.0; for word in line_words: if info and info.size > max_height
MaxHeight(line_words, i, infos, max_height) ==
    IF i > Len(line_words) THEN max_height
    ELSE MaxHeight(line_words, i + 1, infos,
                   IF line_words[i].index \in DOMAIN infos
                   THEN Max(max_height, infos[line_words[i].index].size)
                   ELSE max_height)

\* _render_lines: the sub-lines that have a token, and their heights
_render_lines(words, infos, limits) ==
    LET HasInfo(word) == word.index \in DOMAIN infos
        HasToken(line_words) == SelectSeq(line_words, HasInfo) # <<>>
        kept == SelectSeq(_layout_words_by_size(words, infos, limits), HasToken)
    IN  [lines |-> [k \in 1..Len(kept) |->
                        LET shown == SelectSeq(kept[k], HasInfo)
                        IN  [j \in 1..Len(shown) |-> Token(shown[j], infos)]],
         heights |-> [k \in 1..Len(kept) |-> MaxHeight(kept[k], 1, infos, 0)]]

(***************************************************************************)
(* Placement lookup.  A placement's end is None for +infinity and NaN for  *)
(* a value that is not a number.  A time point is a number of 1/den time   *)
(* units.                                                                  *)
(***************************************************************************)
\* the end float("nan"): every comparison with it is false
NotANumber == 2000000001
NaN == {NotANumber}
\* time_point <= placement.end
Before(time_point, den, placement) ==
    /\ placement.end # NaN
    /\ placement.end = None \/ time_point <= (CHOOSE e \in placement.end : TRUE) * den

_placement_for_time(places, time_point, den) ==
    LET hits == {k \in 1..Len(places) : Before(time_point, den, places[k])}
    IN  IF hits = {} THEN Last(places)
        ELSE places[CHOOSE k \in hits : \A j \in hits : k <= j]

_placement_for_line(line, places, by_segment, time_point, den) ==
    IF line.segment_id # None /\ (CHOOSE i \in line.segment_id : TRUE) \in DOMAIN by_segment
    THEN by_segment[CHOOSE i \in line.segment_id : TRUE]
    ELSE _placement_for_time(places, time_point, den)

(***************************************************************************)
(* Vertical stacking.  Heights and the line spacing are in half points,    *)
(* the offsets below in quarter points, so that total_height / 2 is exact. *)
(***************************************************************************)
_line_alignment_tag(alignment) ==
    IF alignment \in {1, 4, 7} THEN 7
    ELSE IF alignment \in {2, 5, 8} THEN 8
    ELSE IF alignment \in {3, 6, 9} THEN 9
    ELSE 7

\* (mutant: the block always hangs from the anchor)
_block_top_anchor(alignment, anchor_y, total_height) == 4 * anchor_y
\* _block_top, times 4
_block_top(alignment, anchor_y, total_height) ==
    IF alignment \in {7, 8, 9} THEN 4 * anchor_y
    ELSE IF alignment \in {4, 5, 6} THEN 4 * anchor_y - total_height
    ELSE 4 * anchor_y - 2 * total_height

RECURSIVE SumTo(_, _)
SumTo(heights, k) == IF k = 0 THEN 0 ELSE heights[k] + SumTo(heights, k - 1)

\* _build_line_entries (its callers pass as many heights as rendered lines)
_build_line_entries(rendered_lines, line_heights, placement, start, end, alignment, line_spacing) ==
    LET n == Len(rendered_lines)
        total_height == SumTo(line_heights, n) + line_spacing * Max(n - 1, 0)
        top == _block_top(alignment, placement.y, total_height)
    IN  [k \in 1..n |->
            LET y_offset == top + 2 * (SumTo(line_heights, k - 1) + line_spacing * (k - 1))
            IN  DialogueEntry(start, end,
                    EntryText(placement.x, Round(y_offset, 4),
                              Some(_line_alignment_tag(alignment)),
                              <<rendered_lines[k]>>))]

\* _apply_position of the sub-lines joined by \N
_apply_position(rendered_lines, placement) ==
    EntryText(placement.x, placement.y, None, rendered_lines)

\* (mutant: one entry per sub-line even without line spacing)
EmitEntries_split(rendered, placement, start, end, alignment, line_spacing) ==
    _build_line_entries(rendered.lines, rendered.heights, placement, start, end,
                        alignment, line_spacing)
\* the tail shared by the three reveal policies: stacked entries when
\* line_spacing > 0 and there are several sub-lines, else one entry
EmitEntries(rendered, placement, start, end, alignment, line_spacing) ==
    IF line_spacing > 0 /\ Len(rendered.lines) > 1
    THEN _build_line_entries(rendered.lines, rendered.heights, placement, start, end,
                             alignment, line_spacing)
    ELSE <<DialogueEntry(start, end, _apply_position(rendered.lines, placement))>>

\* line_spacing of _build_dialogue_entries: the style's if it has one, never negative
EffectiveLineSpacing(cfg, style) ==
    LET st == CHOOSE x \in style : TRUE
    IN  Max(0, IF style # None /\ st.line_spacing # None
               THEN CHOOSE x \in st.line_spacing : TRUE
               ELSE cfg.line_spacing)

(***************************************************************************)
(* Reveal engine: block and per-word.                                      *)
(***************************************************************************)
\* (mutant: the minimum duration is not enforced, end = line_data.end)
BlockEnd_raw(line) == line.end
\* end = max(line_data.end, start + 0.01)
BlockEnd(line) == Max(line.end, line.start + MinDuration)

\* the block branch of _build_dialogue_entries
_dialogues_block(line, infos, limits, places, by_segment, line_spacing, alignment) ==
    LET rendered == _render_lines(line.words, infos, limits)
        placement == _placement_for_line(line, places, by_segment, line.start, 1)
    IN  IF rendered.lines = <<>> THEN <<>>
        ELSE EmitEntries(rendered, placement, line.start, BlockEnd(line),
                         alignment, line_spacing)

\* (mutant: the buffer of visible words never restarts)
VisibleNext_keep(visible_words, word, last_position, current_position) ==
    Append(visible_words, word)
\* (mutant: the buffer of visible words restarts at every word)
VisibleNext_reset(visible_words, word, last_position, current_position) == <<word>>
\* if last_position != current_position: visible_words = [word], else append
VisibleNext(visible_words, word, last_position, current_position) ==
    IF last_position # Some(current_position) THEN <<word>>
    ELSE Append(visible_words, word)

\* end of the entry of word idx
PerWordEnd(line, idx, start) ==
    LET words == line.words
        word == words[idx]
        end_candidate == IF idx + 1 <= Len(words)
                         THEN Min(line.end, Max(words[idx + 1].start, word.end))
                         ELSE Max(line.end, word.end)
    IN  Max(start + MinDuration, end_candidate)

RECURSIVE PerWordLoop(_, _, _, _, _, _, _, _, _, _)
\* the loop of _dialogues_per_word from word idx on
PerWordLoop(line, idx, infos, limits, places, by_segment, line_spacing, alignment, visible_words, last_position) ==
    IF idx > Len(line.words) THEN <<>>
    ELSE LET word == line.words[idx]
             start == Max(line.start, word.start)
             placement == _placement_for_line(line, places, by_segment, start, 1)
             current_position == <<placement.x, placement.y>>
             visible == VisibleNext(visible_words, word, last_position, current_position)
             rendered == _render_lines(visible, infos, limits)
         IN  IF rendered.lines = <<>>
             THEN PerWordLoop(line, idx + 1, infos, limits, places, by_segment,
                              line_spacing, alignment, visible, last_position)
             ELSE EmitEntries(rendered, placement, start, PerWordEnd(line, idx, start),
                              alignment, line_spacing)
                  \o PerWordLoop(line, idx + 1, infos, limits, places, by_segment,
                                 line_spacing, alignment, visible, Some(current_position))

_dialogues_per_word(line, infos, limits, places, by_segment, line_spacing, alignment) ==
    PerWordLoop(line, 1, infos, limits, places, by_segment, line_spacing, alignment,
                <<>>, None)


(***************************************************************************)
(* Reveal engine: write-on.  A keyframe value is a number of 1/ValueOne.   *)
(* The progress of revealed-character count idx + 1 of N characters is     *)
(* (idx + epsilon) / N = P / (N * EpsDen) with P = idx * EpsDen + 1.       *)
(* Reveal times are exact rationals: numerators over TickDen(N), which     *)
(* every interpolated time divides into.                                   *)
(***************************************************************************)
WriteOnKeyframe(t, v) == [time |-> t, value |-> v]

RECURSIVE Gcd(_, _)
Gcd(a, b) == IF b = 0 THEN a ELSE Gcd(b, a % b)
RECURSIVE LcmUpTo(_)
LcmUpTo(n) == IF n <= 1 THEN 1 ELSE (LcmUpTo(n - 1) * n) \div Gcd(LcmUpTo(n - 1), n)
TickDen(total_chars) == LcmUpTo(ValueOne) * total_chars * EpsDen

RECURSIVE SortedInsert(_, _)
\* frame goes behind every frame whose time is not later: a stable sort
SortedInsert(sorted, frame) ==
    IF sorted = <<>> THEN <<frame>>
    ELSE IF Last(sorted).time <= frame.time THEN Append(sorted, frame)
    ELSE Append(SortedInsert(SubSeq(sorted, 1, Len(sorted) - 1), frame), Last(sorted))

RECURSIVE SortByTime(_)
\* cleaned.sort(key=lambda frame: frame.time)
SortByTime(frames) ==
    IF frames = <<>> THEN <<>>
    ELSE SortedInsert(SortByTime(SubSeq(frames, 1, Len(frames) - 1)), Last(frames))

RECURSIVE MergeFrames(_)
\* frames within 0.001 s of the last kept one replace it
MergeFrames(frames) ==
    IF frames = <<>> THEN <<>>
    ELSE LET merged == MergeFrames(SubSeq(frames, 1, Len(frames) - 1))
             frame == Last(frames)
         IN  IF merged # <<>> /\ Abs(Last(merged).time - frame.time) < MergeWindow
             THEN [merged EXCEPT ![Len(merged)] = frame]
             ELSE Append(merged, frame)

\* (mutant: the curve is not monotonized, value = frame.value)
RunningValue_raw(value, last_value) == value
\* value = max(frame.value, last_value)
RunningValue(value, last_value) == Max(value, last_value)

RECURSIVE Monotonize(_)
Monotonize(frames) ==
    IF frames = <<>> THEN <<>>
    ELSE LET before == Monotonize(SubSeq(frames, 1, Len(frames) - 1))
             last_value == IF before = <<>> THEN 0 ELSE Last(before).value
         IN  Append(before, WriteOnKeyframe(Last(frames).time,
                                            RunningValue(Last(frames).value, last_value)))

CleanFrame(frame, start, end) ==
    WriteOnKeyframe(Min(Max(frame.time, start), end), Max(0, Min(ValueOne, frame.value)))

_normalize_write_on_keyframes(keyframes, start, end) ==
    Monotonize(MergeFrames(SortByTime(
        [k \in 1..Len(keyframes) |-> CleanFrame(keyframes[k], start, end)])))

\* progress <= value  and  value <= progress
ProgressLe(P, N, value) == P * ValueOne <= value * N * EpsDen
ValueLe(value, P, N) == value * N * EpsDen <= P * ValueOne

\* current.time + ratio * span, in 1/TickDen(N)
Interpolate(current, next_frame, P, N) ==
    current.time * TickDen(N)
        + (P * ValueOne - current.value * N * EpsDen) * (next_frame.time - current.time)
            * (LcmUpTo(ValueOne) \div (next_frame.value - current.value))

\* _write_on_time_for_progress: None, or the time in 1/TickDen(N)
_write_on_time_for_progress(keyframes, start, P, N) ==
    IF keyframes = <<>> THEN None
    ELSE IF ProgressLe(P, N, keyframes[1].value) THEN Some(start * TickDen(N))
    ELSE LET hits == {i \in 1..(Len(keyframes) - 1) :
                        /\ ValueLe(keyframes[i].value, P, N)
                        /\ ProgressLe(P, N, keyframes[i + 1].value)}
         IN  IF hits # {}
             THEN LET i == CHOOSE i \in hits : \A j \in hits : i <= j
                      current == keyframes[i]
                      next_frame == keyframes[i + 1]
                  IN  IF \/ next_frame.time - current.time <= 0
                         \/ Abs(next_frame.value - current.value) * EpsDen < ValueOne
                      THEN Some(next_frame.time * TickDen(N))
                      ELSE Some(Interpolate(current, next_frame, P, N))
             ELSE IF ProgressLe(P, N, Last(keyframes).value)
                  THEN Some(Last(keyframes).time * TickDen(N))
                  ELSE None

RECURSIVE TotalChars(_)
TotalChars(words) ==
    IF words = <<>> THEN 0 ELSE Len(Head(words).text) + TotalChars(Tail(words))

RECURSIVE RevealTimes_next(_, _, _, _)
\* (mutant: the threshold of count idx + 1 is (idx + 1 + epsilon) / total_chars)
RevealTimes_next(keyframes, start, idx, N) ==
    IF idx >= N THEN <<>>
    ELSE LET reveal_time == _write_on_time_for_progress(keyframes, start,
                                                        (idx + 1) * EpsDen + 1, N)
         IN  IF reveal_time = None THEN <<>>
             ELSE <<[time |-> CHOOSE t \in reveal_time : TRUE, count |-> idx + 1]>>
                  \o RevealTimes_next(keyframes, start, idx + 1, N)

RECURSIVE RevealTimes(_, _, _, _)
\* the loop over range(total_chars) from idx on; it breaks at the first None
RevealTimes(keyframes, start, idx, N) ==
    IF idx >= N THEN <<>>
    ELSE LET reveal_time == _write_on_time_for_progress(keyframes, start,
                                                        idx * EpsDen + 1, N)
         IN  IF reveal_time = None THEN <<>>
             ELSE <<[time |-> CHOOSE t \in reveal_time : TRUE, count |-> idx + 1]>>
                  \o RevealTimes(keyframes, start, idx + 1, N)

RECURSIVE MergeEvents_first(_, _)
\* (mutant: an event merged into the one before it is dropped, its count with it)
MergeEvents_first(reveal_times, den) ==
    IF reveal_times = <<>> THEN <<>>
    ELSE LET merged == MergeEvents_first(SubSeq(reveal_times, 1, Len(reveal_times) - 1), den)
             event == Last(reveal_times)
         IN  IF merged # <<>> /\ Abs(Last(merged).time - event.time) < MergeWindow * den
             THEN merged
             ELSE Append(merged, event)

RECURSIVE MergeEvents(_, _)
\* merged_events: an event within 0.001 s of the last one replaces it
MergeEvents(reveal_times, den) ==
    IF reveal_times = <<>> THEN <<>>
    ELSE LET merged == MergeEvents(SubSeq(reveal_times, 1, Len(reveal_times) - 1), den)
             event == Last(reveal_times)
         IN  IF merged # <<>> /\ Abs(Last(merged).time - event.time) < MergeWindow * den
             THEN [merged EXCEPT ![Len(merged)] =
                        [time |-> event.time, count |-> Max(Last(merged).count, event.count)]]
             ELSE Append(merged, event)

RECURSIVE VisibleWords(_, _, _)
\* the words needed to show `remaining` more characters from word i on, and the
\* partial_override (word index, text, visible count) of the last one, if any
VisibleWords(words, i, remaining) ==
    IF i > Len(words) \/ remaining <= 0 THEN [words |-> <<>>, partial |-> None]
    ELSE LET word == words[i]
         IN  IF Len(word.text) <= remaining
             THEN LET rest == VisibleWords(words, i + 1, remaining - Len(word.text))
                  IN  [words |-> <<word>> \o rest.words, partial |-> rest.partial]
             ELSE [words |-> <<word>>,
                   partial |-> Some([index |-> word.index, text |-> word.text,
                                     count |-> remaining])]

\* _replace_markup_text: the tag block of the markup, then the escaped text
_replace_markup_text(markup, text) == Markup(markup.fs, _escape_ass_text(text), <<>>)

\* _apply_partial_reveal
_apply_partial_reveal(markup, full_text, visible_count) ==
    IF visible_count <= 0 THEN Markup(None, <<>>, <<>>)
    ELSE IF visible_count >= Len(full_text) THEN _replace_markup_text(markup, full_text)
    ELSE Markup(markup.fs,
                _escape_ass_text(SubSeq(full_text, 1, visible_count)),
                _escape_ass_text(SubSeq(full_text, visible_count + 1, Len(full_text))))

\* active_word_infos
ActiveInfos(infos, partial) ==
    IF partial = None THEN infos
    ELSE LET po == CHOOSE x \in partial : TRUE
         IN  IF po.index \in DOMAIN infos
             THEN [infos EXCEPT ![po.index] =
                        WordRender(_apply_partial_reveal(infos[po.index].markup,
                                                         po.text, po.count),
                                   infos[po.index].size)]
             ELSE infos

\* end_time of event k: the next event's time, at most line_data.end
EventEnd(line, events, k, den) ==
    IF k + 1 <= Len(events) THEN Min(line.end * den, events[k + 1].time)
    ELSE line.end * den

RECURSIVE EventEntries(_, _, _, _, _, _, _, _, _, _)
\* the loop over merged_events from event k on
EventEntries(line, events, k, den, infos, limits, places, by_segment, line_spacing, alignment) ==
    IF k > Len(events) THEN <<>>
    ELSE LET start_time == events[k].time
             end_time == EventEnd(line, events, k, den)
             shown == VisibleWords(line.words, 1, events[k].count)
             rendered == _render_lines(shown.words, ActiveInfos(infos, shown.partial),
                                       limits)
             placement == _placement_for_line(line, places, by_segment, start_time, den)
             start == Max(line.start * den, start_time)
             end == Max(start + MinDuration * den, end_time)
             rest == EventEntries(line, events, k + 1, den, infos, limits, places,
                                  by_segment, line_spacing, alignment)
         IN  IF end_time <= start_time \/ shown.words = <<>> \/ rendered.lines = <<>>
             THEN rest
             ELSE EmitEntries(rendered, placement, start, end, alignment, line_spacing)
                  \o rest

\* merged_events of _dialogues_write_on
MergedEvents(line, keyframes) ==
    LET N == TotalChars(line.words)
    IN  MergeEvents(RevealTimes(_normalize_write_on_keyframes(keyframes, line.start,
                                                               line.end),
                                line.start, 0, N),
                    TickDen(N))

_dialogues_write_on(line, infos, limits, places, by_segment, line_spacing, alignment, keyframes) ==
    IF line.words = <<>> THEN <<>>
    ELSE IF _normalize_write_on_keyframes(keyframes, line.start, line.end) = <<>> THEN <<>>
    ELSE IF TotalChars(line.words) = 0 THEN <<>>
    ELSE EventEntries(line, MergedEvents(line, keyframes), 1,
                      TickDen(TotalChars(line.words)), infos, limits, places,
                      by_segment, line_spacing, alignment)

(***************************************************************************)
(* Inputs of the grouper.                                                  *)
(***************************************************************************)
\* (start, end) of a word: ordinary, zero-length and overlapping intervals
WordSpans == {<<0, 100>>, <<100, 100>>, <<100, 300>>, <<250, 400>>}
\* (start, end) of a segment
SegmentSpans == {<<0, 300>>, <<300, 300>>}
\* (start, end, id) of a manual window
WindowSpans == {<<0, 150, None>>, <<100, 260, Some(1)>>, <<250, 250, None>>}
WindowWordIds == {<<>>, <<1>>, <<2, 0>>, <<7>>}

WordsOf(spans, offset) ==
    [k \in 1..Len(spans) |->
        WordTiming(offset + k - 1, <<"a">>, spans[k][1], spans[k][2])]

\* two segments that split a word sequence at every point, the first possibly empty
Transcripts ==
    {<<Segment(0, s1[1], s1[2], WordsOf(SubSeq(spans, 1, cut), 0)),
       Segment(1, s2[1], s2[2], WordsOf(SubSeq(spans, cut + 1, Len(spans)), cut))>> :
        <<spans, cut, s1, s2>> \in
            {q \in SeqsUpTo(WordSpans, MaxWords) \X (0..MaxWords)
                    \X SegmentSpans \X {<<0, 300>>} : q[2] <= Len(q[1])}}

Windows ==
    {ManualWindow(sp[1], sp[2], sp[3], ids) : sp \in WindowSpans, ids \in WindowWordIds}

(***************************************************************************)
(* The grouper as a state machine: one action per grouping policy of       *)
(* _build_caption_lines.                                                   *)
(***************************************************************************)
InitGroup ==
    /\ pc = "init"
    /\ transcript \in Transcripts
    /\ display = DefaultDisplay
    /\ caption_lines = <<>>
    /\ line_data = NoLine
    /\ config = DefaultConfig
    /\ segment_style = None
    /\ word_infos = <<>>
    /\ IdleStyle
    /\ IdleReveal

Grouped(disp, op) ==
    /\ pc = "init"
    /\ display' = disp
    /\ caption_lines' = _build_caption_lines(transcript, disp)
    /\ pc' = op
    /\ UNCHANGED <<transcript, line_data, config, segment_style, word_infos,
                   styleVars, revealVars>>

GroupBySegment == Grouped(DefaultDisplay, "segment")

GroupFixedCount ==
    \E n \in 0..MaxWords :
        Grouped([DefaultDisplay EXCEPT !.mode = "fixed_count", !.words_per_caption = n],
                "fixed_count")

GroupFixedInterval ==
    \E iv \in {0, 150, 300} :
        Grouped([DefaultDisplay EXCEPT !.mode = "fixed_interval", !.interval_seconds = iv],
                "fixed_interval")

GroupRolling ==
    \E w \in 0..MaxWords :
        Grouped([DefaultDisplay EXCEPT !.mode = "rolling", !.rolling_window = w],
                "rolling")

GroupManualWindows ==
    \E wins \in SeqsUpTo(Windows, MaxWindows) \ {<<>>} :
        Grouped([DefaultDisplay EXCEPT !.windows = wins], "manual")

NextGroup ==
    \/ GroupBySegment
    \/ GroupFixedCount
    \/ GroupFixedInterval
    \/ GroupRolling
    \/ GroupManualWindows

SpecGroup == InitGroup /\ [][NextGroup]_vars

(***************************************************************************)
(* Inputs of the style resolver.                                           *)
(***************************************************************************)
RmsLevels == {10, 30, 50}
\* base size ranges, in half points: 20..40 pt, 20..41 pt, 24.5..40.5 pt, and one
\* given with its bounds reversed, 40..20 pt (RenderConfig.from_dict does not order them)
BaseMappings == {SizeMapping(40, 80), SizeMapping(40, 82), SizeMapping(49, 81),
                 SizeMapping(80, 40)}
\* size_min, size_max of a style override: absent, or 25 / 30 / 45 pt
StyleSizeMin == {None, Some(50), Some(90)}
StyleSizeMax == {None, Some(60)}
SegmentStyles ==
    {None} \cup {Some(SegmentStyle(lo, hi, None, <<>>)) : lo \in StyleSizeMin, hi \in StyleSizeMax}

\* a line of n words 0..n-1; word n is a word of the transcript outside the line
PlainLine(n) ==
    CaptionLine(0, 100, [k \in 1..n |-> WordTiming(k - 1, <<"a">>, 0, 100)], None)
\* the loudness entries: any subset of the words 0..n, each with a level
Analyses(n) ==
    UNION {{[k \in 1..Len(ids) |-> WordDynamics(ids[k], f[ids[k]])] :
                f \in [S -> RmsLevels]} :
           <<S, ids>> \in {<<T, CHOOSE q \in SeqsUpTo(T, Cardinality(T)) :
                                    /\ Len(q) = Cardinality(T)
                                    /\ \A a, b \in 1..Len(q) : a < b => q[a] < q[b]>> :
                            T \in SUBSET (0..n)}}

(***************************************************************************)
(* The style resolver as a state machine: lines 576 and 582 of             *)
(* _build_dialogue_entries for one caption line.                           *)
(***************************************************************************)
InitStyle ==
    /\ pc = "init"
    /\ IdleGroup
    /\ display = DefaultDisplay
    /\ \E n \in 1..MaxWords :
        /\ line_data = PlainLine(n)
        /\ analysis \in Analyses(n)
    /\ \E base \in BaseMappings : config = [DefaultConfig EXCEPT !.size_mapping = base]
    /\ segment_style \in SegmentStyles
    /\ size_mapping = config.size_mapping
    /\ word_infos = <<>>
    /\ IdleReveal

ComputeLineMarkups ==
    /\ pc = "init"
    /\ size_mapping' = _effective_size_mapping(config.size_mapping, segment_style)
    /\ word_infos' = _compute_line_markups(line_data, analysis, size_mapping',
                                           rms_min(analysis), rms_max(analysis))
    /\ pc' = "markups"
    /\ UNCHANGED <<groupVars, line_data, config, analysis, segment_style, revealVars>>

NextStyle == ComputeLineMarkups

SpecStyle == InitStyle /\ [][NextStyle]_vars

(***************************************************************************)
(* Inputs of the reveal engine.                                            *)
(***************************************************************************)
\* (start, end) of a caption line: empty, 2 ms, 30 ms, and end before start
RevealSpans == {<<100, 100>>, <<100, 104>>, <<100, 160>>, <<160, 100>>}
\* (start, end) of a word: zero-length, starting before the line, ending after it
RevealWordSpans == {<<100, 100>>, <<90, 130>>, <<140, 170>>}
\* WordRender.size of a word, in half points (20 pt, 40 pt)
WordSizes == {40, 80}
WordTexts == {<<>>, <<"a">>, <<"a", "b">>}
LimitLists == {<<>>, <<1>>}
\* (line_spacing, alignment)
Layouts == {<<0, 7>>, <<10, 7>>, <<10, 5>>}
\* _load_placements: sorted by end, the last end is +infinity
DefaultPlacement == Placement(None, 960, 540, None)
TimedPlacements == {<<DefaultPlacement>>,
                    <<Placement(Some(130), 100, 200, None), DefaultPlacement>>}
\* (segment_id of the line, placements_by_segment)
SegmentPlacements == {<<None, <<>>>>, <<Some(1), <<>>>>,
                      <<Some(1), (1 :> Placement(None, 50, 60, Some(1)))>>}
KeyframeTimes == {90, 130, 131, 170}
Keyframes == {WriteOnKeyframe(t, v) : t \in KeyframeTimes, v \in 0..ValueOne}
\* the keyframe lists of a style: every list of up to MaxKeyframes keyframes, in any
\* order, and the lists of one more keyframe that are in ascending time order
KeyframeLists ==
    (SeqsUpTo(Keyframes, MaxKeyframes) \ {<<>>})
    \cup {fs \in {Append(s, x) : s \in {t \in SeqsUpTo(Keyframes, MaxKeyframes) :
                                            Len(t) = MaxKeyframes},
                                  x \in Keyframes} :
            \A k \in 1..(Len(fs) - 1) : fs[k].time < fs[k + 1].time}

\* the WordRender of a word of the given size, as _compute_line_markups records it
SizedInfo(word, size) ==
    WordRender(Markup(Some(size \div 2), _escape_ass_text(word.text), <<>>), size)
InfosOf(words, sizes) ==
    [i \in {words[k].index : k \in 1..Len(words)} |->
        SizedInfo(words[CHOOSE k \in 1..Len(words) : words[k].index = i],
                  sizes[CHOOSE k \in 1..Len(words) : words[k].index = i])]

\* lines for block and per-word reveal: the words' times and sizes vary
TimedLines ==
    {<<CaptionLine(span[1], span[2],
                   [k \in 1..Len(ws) |-> WordTiming(k - 1, <<"a">>, ws[k][1][1], ws[k][1][2])],
                   None),
       [k \in 1..Len(ws) |-> ws[k][2]]>> :
        span \in RevealSpans,
        ws \in SeqsUpTo(RevealWordSpans \X WordSizes, MaxWords) \ {<<>>}}

\* lines for write-on reveal: the words' texts vary, the second word may be larger
TextLines ==
    {<<CaptionLine(span[1], span[2],
                   [k \in 1..Len(ts) |-> WordTiming(k - 1, ts[k], span[1], span[2])],
                   None),
       [k \in 1..Len(ts) |-> IF k = 2 THEN big ELSE 40]>> :
        span \in RevealSpans \ {<<100, 100>>},
        ts \in SeqsUpTo(WordTexts, MaxWords) \ {<<>>},
        big \in WordSizes}

\* lines of a manual window that pins the same word twice (word_ids = [0, 0])
PinnedTwiceLines ==
    {<<CaptionLine(span[1], span[2],
                   <<WordTiming(0, t, span[1], span[2]), WordTiming(0, t, span[1], span[2])>>,
                   None),
       <<40, 40>>>> :
        span \in RevealSpans \ {<<100, 100>>},
        t \in WordTexts \ {<<>>}}

(***************************************************************************)
(* The reveal engine as a state machine: the body of the loop of           *)
(* _build_dialogue_entries for one caption line whose word_infos are       *)
(* computed; one action per reveal policy.                                 *)
(***************************************************************************)
InitRevealCommon ==
    /\ pc = "init"
    /\ IdleGroup
    /\ display = DefaultDisplay
    /\ IdleStyle
    /\ normalized = <<>>
    /\ entries = <<>>
    /\ tick = 1
    /\ script = <<>>
    /\ payload = {}

InitTimed ==
    /\ \E lw \in TimedLines, sp \in SegmentPlacements :
        /\ line_data = [lw[1] EXCEPT !.segment_id = sp[1]]
        /\ word_infos = InfosOf(lw[1].words, lw[2])
        /\ placements_by_segment = sp[2]
    /\ placements \in TimedPlacements
    /\ \E lay \in Layouts, lims \in LimitLists, mode \in {"block", "per_word"} :
        config = RenderConfig(DefaultConfig.size_mapping, lay[1], lay[2], mode, lims)
    /\ segment_style \in {None, Some(SegmentStyle(None, None, Some(10), <<>>))}

InitWriteOn ==
    /\ \E lw \in TextLines \cup PinnedTwiceLines :
        /\ line_data = lw[1]
        /\ word_infos = InfosOf(lw[1].words, lw[2])
    /\ \E stacked \in BOOLEAN :
        /\ placements = IF stacked THEN <<Placement(Some(130), 100, 200, None),
                                          DefaultPlacement>>
                        ELSE <<DefaultPlacement>>
        /\ config = IF stacked
                    THEN RenderConfig(DefaultConfig.size_mapping, 10, 5, "per_word", <<1>>)
                    ELSE RenderConfig(DefaultConfig.size_mapping, 0, 7, "block", <<>>)
    /\ placements_by_segment = <<>>
    /\ \E frames \in KeyframeLists :
        segment_style = Some(SegmentStyle(None, None, None, frames))

InitReveal == InitRevealCommon /\ (InitTimed \/ InitWriteOn)

\* (mutant: keyframes are honoured only when reveal_mode is not per_word)
HasWriteOn_mode ==
    /\ segment_style # None
    /\ (CHOOSE st \in segment_style : TRUE).write_on # <<>>
    /\ config.reveal_mode # "per_word"
\* if segment_style and segment_style.write_on
HasWriteOn == segment_style # None /\ (CHOOSE st \in segment_style : TRUE).write_on # <<>>

Revealed(result, den, op) ==
    /\ entries' = result
    /\ tick' = den
    /\ pc' = op
    /\ UNCHANGED <<groupVars, styleVars, line_data, config, segment_style, word_infos,
                   placements, placements_by_segment, script, payload>>

DialoguesWriteOn ==
    /\ pc = "init"
    /\ HasWriteOn
    /\ LET keyframes == (CHOOSE st \in segment_style : TRUE).write_on
           N == TotalChars(line_data.words)
       IN  /\ normalized' = _normalize_write_on_keyframes(keyframes, line_data.start,
                                                          line_data.end)
           /\ Revealed(_dialogues_write_on(line_data, word_infos, config.line_word_limits,
                                           placements, placements_by_segment,
                                           EffectiveLineSpacing(config, segment_style),
                                           config.alignment, keyframes),
                       IF N = 0 THEN 1 ELSE TickDen(N), "write_on")

DialoguesPerWord ==
    /\ pc = "init"
    /\ ~HasWriteOn
    /\ config.reveal_mode = "per_word"
    /\ Revealed(_dialogues_per_word(line_data, word_infos, config.line_word_limits,
                                    placements, placements_by_segment,
                                    EffectiveLineSpacing(config, segment_style),
                                    config.alignment),
                1, "per_word")
    /\ UNCHANGED normalized

DialoguesBlock ==
    /\ pc = "init"
    /\ ~HasWriteOn
    /\ config.reveal_mode # "per_word"
    /\ Revealed(_dialogues_block(line_data, word_infos, config.line_word_limits,
                                 placements, placements_by_segment,
                                 EffectiveLineSpacing(config, segment_style),
                                 config.alignment),
                1, "block")
    /\ UNCHANGED normalized

NextReveal ==
    \/ DialoguesWriteOn
    \/ DialoguesPerWord
    \/ DialoguesBlock

SpecReveal == InitReveal /\ [][NextReveal]_vars

(***************************************************************************)
(* Keyframe normalization alone, on longer and wilder keyframe lists.      *)
(***************************************************************************)
WildKeyframes ==
    {WriteOnKeyframe(t, v) : t \in {90, 100, 101, 130, 170}, v \in (0 - 1)..(ValueOne + 1)}

InitKeyframes ==
    /\ InitRevealCommon
    /\ \E span \in RevealSpans : line_data = CaptionLine(span[1], span[2], <<>>, None)
    /\ word_infos = <<>>
    /\ placements = <<DefaultPlacement>>
    /\ placements_by_segment = <<>>
    /\ config = DefaultConfig
    /\ \E frames \in SeqsUpTo(WildKeyframes, MaxKeyframes + 1) :
        segment_style = Some(SegmentStyle(None, None, None, frames))

NormalizeKeyframes ==
    /\ pc = "init"
    /\ normalized' = _normalize_write_on_keyframes(
                        (CHOOSE st \in segment_style : TRUE).write_on,
                        line_data.start, line_data.end)
    /\ pc' = "normalized"
    /\ UNCHANGED <<groupVars, styleVars, line_data, config, segment_style, word_infos,
                   placements, placements_by_segment, entries, tick, script, payload>>

NextKeyframes == NormalizeKeyframes

SpecKeyframes == InitKeyframes /\ [][NextKeyframes]_vars

(***************************************************************************)
(* Claims about the grouper, checked under SpecGroup.                      *)
(***************************************************************************)
Words == flatten_words(transcript)
LineIndexes(line) == {line.words[k].index : k \in 1..Len(line.words)}
Overlaps(word, window) == word.end > window.start /\ word.start < window.end
Unpinned(windows) == \A w \in 1..Len(windows) : windows[w].word_ids = <<>>
\* a window that can match a word at all
MatchesSome(window) ==
    IF window.word_ids # <<>>
    THEN \E k \in 1..Len(Words), j \in 1..Len(window.word_ids) :
            Words[k].index = window.word_ids[j]
    ELSE \E k \in 1..Len(Words) : Overlaps(Words[k], window)

\* C3 as stated: for any list of manual windows, matched by overlap or pinned by
\* word_ids, no word appears in the caption lines of two different windows.
C3_AnyWindows ==
    pc = "manual" =>
        \A i, j \in 1..Len(caption_lines) :
            i # j => LineIndexes(caption_lines[i]) \cap LineIndexes(caption_lines[j]) = {}

\* C3 amended: for any list of manual windows that are all matched by overlap (none
\* is pinned by word_ids) and any word sequence, no word appears in the caption
\* lines of two different windows.
C3_OverlapWindows ==
    (pc = "manual" /\ Unpinned(display.windows)) =>
        \A i, j \in 1..Len(caption_lines) :
            i # j => LineIndexes(caption_lines[i]) \cap LineIndexes(caption_lines[j]) = {}

\* two overlap-matched windows both got a line and some word overlaps both of them
C3_Witness ==
    /\ pc = "manual"
    /\ Unpinned(display.windows)
    /\ Len(display.windows) = 2
    /\ Len(caption_lines) = 2
    /\ \E k \in 1..Len(Words) :
        Overlaps(Words[k], display.windows[1]) /\ Overlaps(Words[k], display.windows[2])

\* C4: under every grouping policy every emitted CaptionLine holds at least one
\* word; a segment without words yields no line (the lines are exactly the segments
\* that have words) and a manual window that matches no word yields no line (there
\* are at most as many lines as windows that match a word).
C4_NoEmptyLine ==
    pc # "init" =>
        /\ \A k \in 1..Len(caption_lines) : caption_lines[k].words # <<>>
        /\ pc = "segment" =>
            /\ Len(caption_lines) =
                    Cardinality({s \in 1..Len(transcript) : transcript[s].words # <<>>})
            /\ \A k \in 1..Len(caption_lines) :
                \E s \in 1..Len(transcript) :
                    /\ caption_lines[k].segment_id = Some(transcript[s].index)
                    /\ caption_lines[k].words = transcript[s].words
        /\ pc = "manual" =>
            Len(caption_lines) <=
                Cardinality({w \in 1..Len(display.windows) : MatchesSome(display.windows[w])})

\* a segment without words was skipped beside one that was kept
C4_Witness ==
    /\ pc = "segment"
    /\ \E s \in 1..Len(transcript) : transcript[s].words = <<>>
    /\ Len(caption_lines) = 1

\* C5: fixed_count(n) with n >= 1 partitions the words in order: every line but the
\* last has exactly n words, the last has 1..n, the lines' words concatenate to the
\* input, and each line spans [first word start, last word end].
C5_FixedCountPartition ==
    (pc = "fixed_count" /\ display.words_per_caption >= 1) =>
        LET n == display.words_per_caption
            L == caption_lines
        IN  /\ \A k \in 1..Len(L) :
                /\ k < Len(L) => Len(L[k].words) = n
                /\ Len(L[k].words) >= 1 /\ Len(L[k].words) <= n
                /\ L[k].start = L[k].words[1].start
                /\ L[k].end = Last(L[k].words).end
            /\ Flatten([k \in 1..Len(L) |-> L[k].words]) = Words

\* three words in chunks of two: a full line and a shorter last line
C5_Witness ==
    /\ pc = "fixed_count"
    /\ display.words_per_caption = 2
    /\ Len(Words) = 3
    /\ Len(caption_lines) = 2
    /\ Len(caption_lines[2].words) = 1

(***************************************************************************)
(* Claims about the style resolver, checked under SpecStyle.               *)
(***************************************************************************)
\* C2 as stated: for every word of the line, matched to a loudness entry or not, a
\* WordRender is recorded whose size lies in [min_size, max_size] of the effective
\* size mapping, and an unmatched word gets exactly the minimum size.
C2_SizeInRange ==
    pc = "markups" =>
        \A k \in 1..Len(line_data.words) :
            LET i == line_data.words[k].index
            IN  /\ i \in DOMAIN word_infos
                /\ word_infos[i].size >= size_mapping.min_size
                /\ word_infos[i].size <= size_mapping.max_size
                /\ DynamicsGet(analysis, i) = None =>
                        word_infos[i].size = size_mapping.min_size

\* C10 as stated: whenever the loudness range used for the line has max <= min,
\* every matched word gets size clamp(min_size + 0.5 * (max_size - min_size)),
\* whatever its own rms.
C10_FlatRangeMidSize ==
    (pc = "markups" /\ RangeMax(line_data, analysis, rms_min(analysis), rms_max(analysis))
                        <= RangeMin(line_data, analysis, rms_min(analysis), rms_max(analysis))) =>
        \A k \in 1..Len(line_data.words) :
            LET i == line_data.words[k].index
            IN  DynamicsGet(analysis, i) # None =>
                    2 * word_infos[i].size =
                        SizeClamp(size_mapping,
                                  2 * size_mapping.min_size
                                    + (size_mapping.max_size - size_mapping.min_size), 2)

(***************************************************************************)
(* Claims about the reveal engine, checked under SpecReveal.               *)
(***************************************************************************)
Emitted == pc \in {"block", "per_word", "write_on"}
\* the indexes of the words an entry shows, in order
EntryWords(entry) ==
    LET tokens == Flatten(entry.text.lines)
    IN  [k \in 1..Len(tokens) |-> tokens[k].word]

RECURSIVE Unescaped(_)
\* the characters a renderer draws for an escaped text
Unescaped(text) ==
    IF text = <<>> THEN <<>>
    ELSE IF Head(text) = "\\" /\ Len(text) >= 2
         THEN <<text[2]>> \o Unescaped(SubSeq(text, 3, Len(text)))
         ELSE <<Head(text)>> \o Unescaped(Tail(text))

\* the number of characters an entry shows (the transparent suffix of a partially
\* revealed word is not shown)
VisibleChars(entry) ==
    LET tokens == Flatten(entry.text.lines)
    IN  SumTo([k \in 1..Len(tokens) |-> Len(Unescaped(tokens[k].markup.text))],
              Len(tokens))

\* the number of characters shown by the entries of the reveal event that starts at s
RevealedAt(s) ==
    SumTo([k \in 1..Len(entries) |->
                IF entries[k].start = s THEN VisibleChars(entries[k]) ELSE 0],
          Len(entries))

\* the sub-lines the whole caption line renders as
LineSubLines == _render_lines(line_data.words, word_infos, config.line_word_limits).lines
\* vertical stacking applies to the whole caption line
StackingApplies ==
    EffectiveLineSpacing(config, segment_style) > 0 /\ Len(LineSubLines) > 1

\* C1: every dialogue entry emitted by block, per-word or write-on reveal, stacked
\* or not, lasts at least 0.01 s: end >= start + 0.01, hence end > start, also for
\* lines and words whose end <= start.
C1_MinDuration ==
    Emitted =>
        \A k \in 1..Len(entries) :
            /\ entries[k].end >= entries[k].start + MinDuration * tick
            /\ entries[k].end > entries[k].start

\* a stacked block of a line whose end is before its start has been emitted
C1_Witness ==
    /\ pc = "block"
    /\ line_data.end < line_data.start
    /\ Len(entries) > 1
    /\ \A k \in 1..Len(entries) : entries[k].end = entries[k].start + MinDuration

\* C6: the keyframe list returned by _normalize_write_on_keyframes has non-decreasing
\* values, each the running maximum of the clamped, time-sorted and merged values up
\* to it.
C6_ValuesNonDecreasing ==
    pc = "normalized" =>
        LET style == CHOOSE st \in segment_style : TRUE
            merged == MergeFrames(SortByTime(
                        [k \in 1..Len(style.write_on) |->
                            CleanFrame(style.write_on[k], line_data.start, line_data.end)]))
        IN  /\ \A i, j \in 1..Len(normalized) :
                    i < j => normalized[i].value <= normalized[j].value
            /\ Len(normalized) = Len(merged)
            /\ \A j \in 1..Len(normalized) :
                    /\ \A i \in 1..j : normalized[j].value >= merged[i].value
                    /\ \/ normalized[j].value = 0
                       \/ \E i \in 1..j : normalized[j].value = merged[i].value

\* a list whose later keyframe has the smaller value has been normalized: the
\* later keyframe is raised to the earlier one's value
C6_Witness ==
    /\ pc = "normalized"
    /\ LET frames == (CHOOSE st \in segment_style : TRUE).write_on
       IN  /\ Len(frames) = 2
           /\ line_data.start <= frames[1].time
           /\ frames[1].time + MergeWindow <= frames[2].time
           /\ frames[2].time <= line_data.end
           /\ 0 < frames[2].value
           /\ frames[2].value < frames[1].value
           /\ frames[1].value <= ValueOne
           /\ Len(normalized) = 2
           /\ normalized[2].value = frames[1].value

\* C7 as stated: over the write-on reveal events of one caption line in emission
\* order, entry start times are non-decreasing and the number of revealed
\* characters strictly increases from one event to the next.
C7_RevealNeverRegresses ==
    pc = "write_on" =>
        \A i, j \in 1..Len(entries) :
            i < j =>
                /\ entries[i].start <= entries[j].start
                /\ entries[i].start < entries[j].start =>
                        RevealedAt(entries[i].start) < RevealedAt(entries[j].start)

\* C8: per-word reveal of a line of n words whose resolved placement is the same at
\* every word start, and which is not stacked, emits exactly n entries in word
\* order, the i-th showing exactly the first i words of the line.
SamePlacement ==
    \A k \in 1..Len(line_data.words) :
        LET at(w) == _placement_for_line(line_data, placements, placements_by_segment,
                                         Max(line_data.start, w.start), 1)
        IN  /\ at(line_data.words[k]).x = at(line_data.words[1]).x
            /\ at(line_data.words[k]).y = at(line_data.words[1]).y

C8_CumulativePrefixes ==
    (pc = "per_word" /\ SamePlacement /\ ~StackingApplies) =>
        /\ Len(entries) = Len(line_data.words)
        /\ \A i \in 1..Len(entries) :
                EntryWords(entries[i]) = [k \in 1..i |-> line_data.words[k].index]

\* three words have been revealed one by one at one placement
C8_Witness ==
    /\ pc = "per_word"
    /\ SamePlacement
    /\ ~StackingApplies
    /\ Len(line_data.words) = 3
    /\ Len(entries) = 3
    /\ Len(EntryWords(entries[3])) = 3

\* C9: under block reveal every entry of the line spans exactly
\* [line.start, max(line.end, line.start + 0.01)]; exactly one entry is emitted
\* unless vertical stacking applies; a line with end = start yields one entry of
\* duration exactly 0.01 s.
C9_BlockSpan ==
    pc = "block" =>
        /\ \A k \in 1..Len(entries) :
                /\ entries[k].start = line_data.start
                /\ entries[k].end = Max(line_data.end, line_data.start + MinDuration)
        /\ ~StackingApplies => Len(entries) = 1
        /\ StackingApplies => Len(entries) = Len(LineSubLines)
        /\ (line_data.end = line_data.start /\ ~StackingApplies) =>
                /\ Len(entries) = 1
                /\ entries[1].end - entries[1].start = MinDuration

\* a line with end = start that wraps into two sub-lines without line spacing has
\* been emitted as one entry of 0.01 s
C9_Witness ==
    /\ pc = "block"
    /\ line_data.end = line_data.start
    /\ ~StackingApplies
    /\ Len(LineSubLines) > 1
    /\ Len(entries) = 1
    /\ entries[1].end - entries[1].start = MinDuration

\* the rms values of the line's words that have a loudness entry
MatchedRms ==
    {(CHOOSE d \in DynamicsGet(analysis, line_data.words[k].index) : TRUE).rms :
        k \in {j \in 1..Len(line_data.words) :
                    DynamicsGet(analysis, line_data.words[j].index) # None}}
SetMin(S) == CHOOSE r \in S : \A q \in S : r <= q
SetMax(S) == CHOOSE r \in S : \A q \in S : r >= q
\* the line has matched words with local_max > local_min
LocalRange == MatchedRms # {} /\ SetMax(MatchedRms) > SetMin(MatchedRms)

\* C11 as stated: the range used for the line is the line-local min/max of the
\* matched words' rms exactly when the line has matched words with
\* local_max > local_min, else the global min/max over all loudness entries; with a
\* non-degenerate range the word at the range minimum gets min_size and the word at
\* the range maximum gets max_size.
C11_RangeAndEndpoints ==
    pc = "markups" =>
        LET lo == IF LocalRange THEN SetMin(MatchedRms) ELSE rms_min(analysis)
            hi == IF LocalRange THEN SetMax(MatchedRms) ELSE rms_max(analysis)
        IN  /\ RangeMin(line_data, analysis, rms_min(analysis), rms_max(analysis)) = lo
            /\ RangeMax(line_data, analysis, rms_min(analysis), rms_max(analysis)) = hi
            /\ hi > lo =>
                \A k \in 1..Len(line_data.words) :
                    LET i == line_data.words[k].index
                        d == DynamicsGet(analysis, i)
                    IN  d # None =>
                            /\ (CHOOSE x \in d : TRUE).rms = lo =>
                                    word_infos[i].size = size_mapping.min_size
                            /\ (CHOOSE x \in d : TRUE).rms = hi =>
                                    word_infos[i].size = size_mapping.max_size

\* the active segment style of the line defines at least one keyframe
StyleHasKeyframes ==
    \E st \in segment_style : Len(st.write_on) >= 1

\* C12: exactly one reveal policy produces the entries of a caption line: write-on
\* when the active segment style defines at least one keyframe, whatever
\* reveal_mode is; otherwise per-word when reveal_mode is per_word; otherwise block.
C12_PolicyPriority ==
    Emitted =>
        LET spacing == EffectiveLineSpacing(config, segment_style)
        IN  IF StyleHasKeyframes
            THEN /\ pc = "write_on"
                 /\ entries = _dialogues_write_on(
                        line_data, word_infos, config.line_word_limits, placements,
                        placements_by_segment, spacing, config.alignment,
                        (CHOOSE st \in segment_style : TRUE).write_on)
            ELSE IF config.reveal_mode = "per_word"
            THEN /\ pc = "per_word"
                 /\ entries = _dialogues_per_word(
                        line_data, word_infos, config.line_word_limits, placements,
                        placements_by_segment, spacing, config.alignment)
            ELSE /\ pc = "block"
                 /\ entries = _dialogues_block(
                        line_data, word_infos, config.line_word_limits, placements,
                        placements_by_segment, spacing, config.alignment)

\* a line whose style has keyframes has been revealed by write-on although
\* reveal_mode is per_word
C12_Witness ==
    /\ pc = "write_on"
    /\ StyleHasKeyframes
    /\ config.reveal_mode = "per_word"
    /\ entries # <<>>

(***************************************************************************)
(* Script assembly: the timestamps and the Dialogue lines of               *)
(* build_ass_script.  A string is the sequence of its characters.  A time  *)
(* of Infinity or more (of -Infinity or less) stands for a float whose     *)
(* hundredfold is +inf (-inf): an infinite bound, or a finite one beyond   *)
(* about 1.8e306 seconds.                                                  *)
(***************************************************************************)
Infinity == 2000000000
\* time units (half milliseconds) in a centisecond: seconds * 100
Centi == 20

\* int(round(seconds * 100)) raises OverflowError
Overflows(t) == t >= Infinity \/ t <= 0 - Infinity

\* the time lies midway between two centiseconds
Midway(t) == 2 * (t - (t \div Centi) * Centi) = Centi

\* max(0, int(round(seconds * 100))): the nearest centisecond; for a time midway
\* between two centiseconds the float product decides which of the two it is
\* (0.125 s gives 12, 1.015 s gives 101, 0.015 s gives 2): `ups` is the set of
\* such times that come out as the upper one
Centiseconds(t, ups) ==
    LET f == t \div Centi
        r == t - f * Centi
        rounded == IF 2 * r < Centi THEN f
                   ELSE IF 2 * r > Centi THEN f + 1
                   ELSE IF t \in ups THEN f + 1 ELSE f
    IN  Max(0, rounded)

DigitChar(d) == <<"0", "1", "2", "3", "4", "5", "6", "7", "8", "9">>[d + 1]
RECURSIVE Decimal(_)
\* str(n) of a natural number
Decimal(n) == IF n < 10 THEN <<DigitChar(n)>> ELSE Append(Decimal(n \div 10), DigitChar(n % 10))
\* f"{n:02d}" of a natural number
Padded2(n) == IF n < 10 THEN <<"0", DigitChar(n)>> ELSE Decimal(n)

\* lines 75-81 of _format_timestamp, from the centiseconds on
TimestampOf(centiseconds) ==
    LET cs == centiseconds % 100
        total_seconds == centiseconds \div 100
        s == total_seconds % 60
        total_minutes == total_seconds \div 60
        m == total_minutes % 60
        h == total_minutes \div 60
    IN  Decimal(h) \o <<":">> \o Padded2(m) \o <<":">> \o Padded2(s) \o <<".">> \o Padded2(cs)

\* _format_timestamp of a time that does not overflow
_format_timestamp(t, ups) == TimestampOf(Centiseconds(t, ups))

\* a Dialogue line of the script: "Dialogue: 0,{start_ts},{end_ts},Default,,0,0,0,,{text}"
Dialogue(start_ts, end_ts, text) == [start_ts |-> start_ts, end_ts |-> end_ts, text |-> text]
\* the header block: PlayResX, PlayResY and the Fontsize int(min_size) of the style
Header(cfg) == [play_res |-> <<1920, 1080>>, fontsize |-> cfg.size_mapping.min_size \div 2]

\* the loop over dialogue_entries
DialogueLines(dialogue_entries, ups) ==
    [k \in 1..Len(dialogue_entries) |->
        Dialogue(_format_timestamp(dialogue_entries[k].start, ups),
                 _format_timestamp(dialogue_entries[k].end, ups),
                 dialogue_entries[k].text)]

\* the times of the entries that lie midway between two centiseconds
MidwayTimes(dialogue_entries) ==
    {t \in {dialogue_entries[k].start : k \in 1..Len(dialogue_entries)}
            \cup {dialogue_entries[k].end : k \in 1..Len(dialogue_entries)} : Midway(t)}

\* some timestamp of the loop raises
LoopRaises(dialogue_entries) ==
    \E k \in 1..Len(dialogue_entries) :
        Overflows(dialogue_entries[k].start) \/ Overflows(dialogue_entries[k].end)

\* the end of build_ass_script: the script is returned, or the error propagates
Assembled(dialogue_entries) ==
    IF LoopRaises(dialogue_entries)
    THEN /\ pc' = "raised"
         /\ script' = <<>>
    ELSE /\ pc' = "script"
         /\ \E ups \in SUBSET MidwayTimes(dialogue_entries) :
                script' = <<Header(config)>> \o DialogueLines(dialogue_entries, ups)

(***************************************************************************)
(* The timestamp loop alone, on entries with times of every magnitude.     *)
(***************************************************************************)
\* 5 ms, 59.995 s and 59 min 59.995 s lie midway between two centiseconds
StampTimes ==
    {0 - Infinity, 0 - 30, 0 - 10, 0, 9, 10, 11, 30, 119990, 120000,
     7199990, 7200000, 72000000, Infinity}
StampEntries ==
    {DialogueEntry(s, e, EntryText(960, 540, None, <<>>)) :
        <<s, e>> \in {q \in StampTimes \X StampTimes :
                        \/ q[2] >= q[1] + MinDuration
                        \/ (q[1] = q[2] /\ Overflows(q[1]))}}

InitTimestamp ==
    /\ pc = "init"
    /\ IdleGroup
    /\ display = DefaultDisplay
    /\ IdleStyle
    /\ line_data = NoLine
    /\ config = DefaultConfig
    /\ segment_style = None
    /\ word_infos = <<>>
    /\ placements = <<DefaultPlacement>>
    /\ placements_by_segment = <<>>
    /\ normalized = <<>>
    /\ entries \in SeqsUpTo(StampEntries, 2)
    /\ tick = 1
    /\ script = <<>>
    /\ payload = {}

FormatEntries ==
    /\ pc = "init"
    /\ Assembled(entries)
    /\ UNCHANGED <<groupVars, styleVars, line_data, config, segment_style, word_infos,
                   placements, placements_by_segment, normalized, entries, tick, payload>>

NextTimestamp == FormatEntries

SpecTimestamp == InitTimestamp /\ [][NextTimestamp]_vars

(***************************************************************************)
(* _load_placements.  The placements file is the list of its items; an     *)
(* item gives its position in pixels (x_px, y_px).  An item's end is None  *)
(* when the key is missing or its value is no number.                      *)
(***************************************************************************)
PlayRes == <<1920, 1080>>
Item(is_dict, e, x_px, y_px, sid) ==
    [is_dict |-> is_dict, end |-> e, x_px |-> x_px, y_px |-> y_px, segment_id |-> sid]

\* end_value: float(end_raw), +infinity for a missing or unreadable end
EndValue(end_raw) == IF end_raw = None \/ end_raw = Some(Infinity) THEN None ELSE end_raw

\* _resolve_position(value, dimension, allow_unit=False) of an integer, then the default
PositionValue(value, dimension) ==
    IF value = None THEN dimension \div 2
    ELSE Max(0, Min(CHOOSE v \in value : TRUE, dimension))

\* the Placement built from one item
ItemPlacement(item) ==
    Placement(EndValue(item.end), PositionValue(item.x_px, PlayRes[1]),
              PositionValue(item.y_px, PlayRes[2]), item.segment_id)

\* a.end < b.end as floats
EndLess(a, b) ==
    /\ a.end # NaN
    /\ b.end # NaN
    /\ a.end # None
    /\ b.end = None \/ (CHOOSE e \in a.end : TRUE) < (CHOOSE e \in b.end : TRUE)

Reverse(s) == [k \in 1..Len(s) |-> s[Len(s) + 1 - k]]

\* list.sort, count_run: the length of the run the list starts with, ascending or
\* strictly descending
Descending(s) == Len(s) >= 2 /\ EndLess(s[2], s[1])
RunLength(s) ==
    IF Len(s) <= 1 THEN Len(s)
    ELSE LET breaks == {k \in 3..Len(s) : EndLess(s[k], s[k - 1]) # Descending(s)}
         IN  IF breaks = {} THEN Len(s)
             ELSE (CHOOSE k \in breaks : \A j \in breaks : k <= j) - 1

RECURSIVE InsertionPoint(_, _, _, _)
\* list.sort, binarysort: the slot of the pivot among the sorted items l..r-1
InsertionPoint(s, pivot, l, r) ==
    IF l >= r THEN l
    ELSE LET p == l + (r - l) \div 2
         IN  IF EndLess(pivot, s[p]) THEN InsertionPoint(s, pivot, l, p)
             ELSE InsertionPoint(s, pivot, p + 1, r)

RECURSIVE BinarySort(_, _)
\* list.sort, binarysort: the items after the first n are inserted one by one
BinarySort(s, n) ==
    IF n >= Len(s) THEN s
    ELSE LET pivot == s[n + 1]
             l == InsertionPoint(s, pivot, 1, n + 1)
         IN  BinarySort(SubSeq(s, 1, l - 1) \o <<pivot>> \o SubSeq(s, l, n)
                            \o SubSeq(s, n + 2, Len(s)),
                        n + 1)

\* placements.sort(key=lambda p: p.end), for a list shorter than 64
SortByEnd(s) ==
    LET n == RunLength(s)
        run == IF Descending(s) THEN Reverse(SubSeq(s, 1, n)) ELSE SubSeq(s, 1, n)
    IN  BinarySort(run \o SubSeq(s, n + 1, Len(s)), n)

RECURSIVE Timed(_)
\* the placements of the items without a segment id, in file order
Timed(items) ==
    IF items = <<>> THEN <<>>
    ELSE (IF Head(items).is_dict /\ Head(items).segment_id = None
          THEN <<ItemPlacement(Head(items))>> ELSE <<>>) \o Timed(Tail(items))

\* the placements of the items with a segment id: a later item replaces an earlier one
BySegment(items) ==
    LET keyed == {k \in 1..Len(items) : items[k].is_dict /\ items[k].segment_id # None}
        ids == {CHOOSE i \in items[k].segment_id : TRUE : k \in keyed}
    IN  [i \in ids |->
            ItemPlacement(items[CHOOSE k \in keyed :
                                    /\ items[k].segment_id = Some(i)
                                    /\ \A j \in keyed : items[j].segment_id = Some(i) => j <= k])]

FallbackPlacement == Placement(None, PlayRes[1] \div 2, PlayRes[2] \div 2, None)

\* _load_placements: (placements, placements_by_segment)
_load_placements(file) ==
    IF file = None THEN <<<<FallbackPlacement>>, <<>>>>
    ELSE LET items == CHOOSE l \in file : TRUE
             sorted == SortByEnd(Timed(items))
         IN  <<IF sorted = <<>> \/ Last(sorted).end # None
               THEN Append(sorted, FallbackPlacement) ELSE sorted,
               BySegment(items)>>

(***************************************************************************)
(* build_ass_script as one step, for a configuration without segment       *)
(* styles: grouping, then per caption line the markups and the reveal      *)
(* policy, then the timestamp loop.                                        *)
(***************************************************************************)
\* the body of the loop of _build_dialogue_entries for one line without a style
LineDialogues(line, words, cfg, places, by_segment) ==
    LET mapping == _effective_size_mapping(cfg.size_mapping, None)
        infos == _compute_line_markups(line, words, mapping, rms_min(words), rms_max(words))
        line_spacing == EffectiveLineSpacing(cfg, None)
    IN  IF cfg.reveal_mode = "per_word"
        THEN _dialogues_per_word(line, infos, cfg.line_word_limits, places, by_segment,
                                 line_spacing, cfg.alignment)
        ELSE _dialogues_block(line, infos, cfg.line_word_limits, places, by_segment,
                              line_spacing, cfg.alignment)

\* _build_dialogue_entries with segment_styles = []
_build_dialogue_entries(lines, words, cfg, places, by_segment) ==
    Flatten([k \in 1..Len(lines) |-> LineDialogues(lines[k], words, cfg, places, by_segment)])

\* manual windows of a script: an ordinary one, and two whose end is infinite
ScriptWindows ==
    {ManualWindow(0, 150, None, <<>>),
     ManualWindow(100, Infinity, None, <<>>),
     ManualWindow(0, Infinity, Some(1), <<1>>)}
ScriptDisplays ==
    {DefaultDisplay} \cup {[DefaultDisplay EXCEPT !.windows = <<w>>] : w \in ScriptWindows}

InitScript ==
    /\ pc = "init"
    /\ transcript \in Transcripts
    /\ display \in ScriptDisplays
    /\ caption_lines = <<>>
    /\ analysis \in {<<>>, <<WordDynamics(0, 10)>>, <<WordDynamics(0, 10), WordDynamics(1, 30)>>}
    /\ \E mode \in {"block", "per_word"}, lims \in LimitLists :
        config = RenderConfig(DefaultConfig.size_mapping, 0, 7, mode, lims)
    /\ size_mapping = config.size_mapping
    /\ line_data = NoLine
    /\ segment_style = None
    /\ word_infos = <<>>
    /\ placements = <<>>
    /\ placements_by_segment = <<>>
    /\ normalized = <<>>
    /\ entries = <<>>
    /\ tick = 1
    /\ script = <<>>
    /\ payload \in {None, Some(<<Item(TRUE, Some(100), Some(100), None, None)>>)}

BuildAssScript ==
    /\ pc = "init"
    /\ caption_lines' = _build_caption_lines(transcript, display)
    /\ placements' = _load_placements(payload)[1]
    /\ placements_by_segment' = _load_placements(payload)[2]
    /\ entries' = _build_dialogue_entries(caption_lines', analysis, config, placements',
                                          placements_by_segment')
    /\ Assembled(entries')
    /\ UNCHANGED <<transcript, display, styleVars, line_data, config, segment_style,
                   word_infos, normalized, tick, payload>>

NextScript == BuildAssScript

SpecScript == InitScript /\ [][NextScript]_vars

(***************************************************************************)
(* Claims about the script assembly, checked under SpecScript and          *)
(* SpecTimestamp.                                                          *)
(***************************************************************************)
\* C13 as stated: for any structurally valid transcript, loudness map and
\* configuration, windows with infinite bounds included, build_ass_script completes
\* without raising an error; with no words it emits the header and zero dialogue
\* events.
C13_NeverRaises ==
    pc # "init" =>
        /\ pc = "script"
        /\ flatten_words(transcript) = <<>> => script = <<Header(config)>>

DigitValue(ch) == CHOOSE d \in 0..9 : DigitChar(d) = ch
IsDigit(ch) == \E d \in 0..9 : DigitChar(d) = ch
RECURSIVE NumberOf(_)
\* the number a sequence of digits writes
NumberOf(digits) ==
    IF digits = <<>> THEN 0
    ELSE 10 * NumberOf(SubSeq(digits, 1, Len(digits) - 1)) + DigitValue(Last(digits))

\* ts reads H:MM:SS.CC, with H unpadded, and stands for c centiseconds
Reads(ts, c) ==
    LET n == Len(ts)
        hours == SubSeq(ts, 1, n - 9)
        MM == NumberOf(SubSeq(ts, n - 7, n - 6))
        SS == NumberOf(SubSeq(ts, n - 4, n - 3))
        CC == NumberOf(SubSeq(ts, n - 1, n))
    IN  /\ n >= 10
        /\ ts[n - 8] = ":" /\ ts[n - 5] = ":" /\ ts[n - 2] = "."
        /\ \A k \in (1..n) \ {n - 8, n - 5, n - 2} : IsDigit(ts[k])
        /\ Len(hours) = 1 \/ Head(hours) # "0"
        /\ CC = c % 100
        /\ SS = (c \div 100) % 60
        /\ MM = (c \div 6000) % 60
        /\ NumberOf(hours) = c \div 360000
        /\ 360000 * NumberOf(hours) + 6000 * MM + 100 * SS + CC = c

\* c = max(0, t rounded to the nearest centisecond)
NearestCenti(t, c) ==
    \E n \in {t \div Centi, t \div Centi + 1} :
        /\ 2 * Abs(t - n * Centi) <= Centi
        /\ c = Max(0, n)

\* the (time, timestamp) pairs of the script
Stamps ==
    {<<entries[k].start, script[k + 1].start_ts>> : k \in 1..Len(entries)}
    \cup {<<entries[k].end, script[k + 1].end_ts>> : k \in 1..Len(entries)}

\* C15 as stated: for any time t, _format_timestamp yields H:MM:SS.CC for
\* c = max(0, t rounded to the nearest centisecond), with CC = c mod 100,
\* SS = (c div 100) mod 60, MM = (c div 6000) mod 60, H = c div 360000 unpadded;
\* every negative t yields 0:00:00.00 and the mapping is non-decreasing in t.
C15_TimestampFields ==
    pc # "init" =>
        /\ pc = "script"
        /\ Len(script) = Len(entries) + 1
        /\ \A p \in Stamps :
            /\ \E c \in {Max(0, p[1] \div Centi), Max(0, p[1] \div Centi + 1)} :
                    NearestCenti(p[1], c) /\ Reads(p[2], c)
            /\ p[1] < 0 => p[2] = <<"0", ":", "0", "0", ":", "0", "0", ".", "0", "0">>
        /\ \A p, q \in Stamps :
            p[1] <= q[1] =>
                \A c, d \in 0..1 :
                    LET cp == Max(0, p[1] \div Centi + c)
                        cq == Max(0, q[1] \div Centi + d)
                    IN  (Reads(p[2], cp) /\ Reads(q[2], cq)) => cp <= cq

(***************************************************************************)
(* Escaping of word texts: _compute_line_markups escapes every word of a   *)
(* line, and the partial reveal of write-on escapes the shown and the      *)
(* hidden part of a word separately.                                       *)
(***************************************************************************)
EscapeLen == 3
EscapeAlphabet == {"a", "\\", "{", "}"}
EscapeTexts == SeqsUpTo(EscapeAlphabet, EscapeLen)

InitEscape ==
    /\ pc = "init"
    /\ IdleGroup
    /\ display = DefaultDisplay
    /\ \E n \in 1..MaxWords, text \in EscapeTexts :
        line_data = [PlainLine(n) EXCEPT !.words[1].text = text]
    /\ analysis \in {<<>>, <<WordDynamics(0, 30)>>}
    /\ config = DefaultConfig
    /\ segment_style = None
    /\ size_mapping = config.size_mapping
    /\ word_infos = <<>>
    /\ IdleReveal

\* the partial override of _dialogues_write_on applied by _render_lines: one word of
\* the line shows its first count characters
RevealPartial ==
    /\ pc = "markups"
    /\ \E k \in 1..Len(line_data.words) :
        \E count \in 0..Len(line_data.words[k].text) :
            word_infos' = ActiveInfos(word_infos,
                                      Some([index |-> line_data.words[k].index,
                                            text |-> line_data.words[k].text,
                                            count |-> count]))
    /\ pc' = "partial"
    /\ UNCHANGED <<groupVars, line_data, config, analysis, segment_style, size_mapping,
                   revealVars>>

NextEscape == ComputeLineMarkups \/ RevealPartial

SpecEscape == InitEscape /\ [][NextEscape]_vars

\* what the claim says one character becomes
EscapedChar(ch) ==
    IF ch = "\\" THEN <<"\\", "\\">>
    ELSE IF ch = "{" THEN <<"\\", "{">>
    ELSE IF ch = "}" THEN <<"\\", "}">>
    ELSE <<ch>>
CharWise(text) == Flatten([k \in 1..Len(text) |-> EscapedChar(text[k])])

RECURSIVE WellEscaped(_)
\* read left to right, a backslash takes the character after it; no brace is left over
WellEscaped(text) ==
    IF text = <<>> THEN TRUE
    ELSE IF Head(text) = "\\"
         THEN Len(text) >= 2 /\ WellEscaped(SubSeq(text, 3, Len(text)))
         ELSE Head(text) \notin {"{", "}"} /\ WellEscaped(Tail(text))

Specials(text) == Cardinality({k \in 1..Len(text) : text[k] \in {"\\", "{", "}"}})

\* C14: the escaped text of every word is the character-by-character image of its
\* text (backslash doubled, a brace preceded by one backslash, any other character
\* kept), so it is longer than the text by exactly one backslash per special
\* character, holds no unescaped brace, and reads back as the text; when the word is
\* partially revealed, the shown and the hidden part are escaped on their own and
\* together read back as the text.
C14_EscapeMapping ==
    pc \in {"markups", "partial"} =>
        \A k \in 1..Len(line_data.words) :
            LET word == line_data.words[k]
                markup == word_infos[word.index].markup
                shown == Unescaped(markup.text)
            IN  /\ WellEscaped(markup.text)
                /\ WellEscaped(markup.hidden)
                /\ Len(markup.text) = Len(shown) + Specials(shown)
                /\ shown = SubSeq(word.text, 1, Len(shown))
                /\ markup.text = CharWise(shown)
                /\ markup.hidden = CharWise(SubSeq(word.text, Len(shown) + 1, Len(word.text)))
                   \/ (pc = "partial" /\ markup = Markup(None, <<>>, <<>>))
                /\ pc = "markups" => markup.text = CharWise(word.text)

\* a word holding a backslash and both braces is shown in part, the rest hidden
C14_Witness ==
    /\ pc = "partial"
    /\ \E k \in 1..Len(line_data.words) :
        LET word == line_data.words[k]
            markup == word_infos[word.index].markup
        IN  /\ {"\\", "{", "}"} \subseteq {word.text[j] : j \in 1..Len(word.text)}
            /\ markup.text # <<>>
            /\ markup.hidden # <<>>

(***************************************************************************)
(* _load_placements alone, on files of up to MaxItems items.               *)
(***************************************************************************)
MaxItems == 3
\* ends of 50 ms and 150 ms, not a number, infinite, missing
ItemEnds == {None, Some(100), Some(300), NaN, Some(Infinity)}
Items ==
    {Item(FALSE, None, None, None, None)}
    \cup {Item(TRUE, e, x, None, sid) :
            e \in ItemEnds, x \in {None, Some(100)}, sid \in {None, Some(1)}}

InitPlacements ==
    /\ pc = "init"
    /\ IdleGroup
    /\ display = DefaultDisplay
    /\ line_data = PlainLine(1)
    /\ config = DefaultConfig
    /\ segment_style = None
    /\ word_infos = <<>>
    /\ IdleStyle
    /\ placements = <<>>
    /\ placements_by_segment = <<>>
    /\ normalized = <<>>
    /\ entries = <<>>
    /\ tick = 1
    /\ script = <<>>
    /\ payload \in {None} \cup {Some(items) : items \in SeqsUpTo(Items, MaxItems)}

\* line 286 of build_ass_script
LoadPlacements ==
    /\ pc = "init"
    /\ placements' = _load_placements(payload)[1]
    /\ placements_by_segment' = _load_placements(payload)[2]
    /\ pc' = "placed"
    /\ UNCHANGED <<groupVars, line_data, config, segment_style, word_infos, styleVars,
                   normalized, entries, tick, script, payload>>

NextPlacements == LoadPlacements

SpecPlacements == InitPlacements /\ [][NextPlacements]_vars

\* a.end <= b.end as floats
EndAtMost(a, b) ==
    /\ a.end # NaN
    /\ b.end # NaN
    /\ b.end = None \/ (a.end # None /\ (CHOOSE e \in a.end : TRUE) <= (CHOOSE e \in b.end : TRUE))

\* query times of 0, 50 ms, 100 ms, 150 ms, 200 ms
QueryTimes == {0, 100, 200, 300, 400}

\* C16: the loaded placement list is non-empty, its ends ascend, its last end is
\* +infinity, and for every query time the lookup returns the first entry of the
\* list whose end is at least the query.
C16_SortedWithFallback ==
    pc = "placed" =>
        /\ placements # <<>>
        /\ \A j, k \in 1..Len(placements) : j < k => EndAtMost(placements[j], placements[k])
        /\ Last(placements).end = None
        /\ \A t \in QueryTimes :
            LET hits == {k \in 1..Len(placements) : Before(t, 1, placements[k])}
            IN  /\ hits # {}
                /\ _placement_for_time(placements, t, 1)
                    = placements[CHOOSE k \in hits : \A j \in hits : k <= j]

(***************************************************************************)
(* The line wrapper alone, on longer lines and longer limit lists: a line  *)
(* of up to MaxWrapWords words of either size is emitted as one block, or  *)
(* word by word at one position.                                           *)
(***************************************************************************)
MaxWrapWords == 4
MaxLimits == 2
\* DisplayConfig.from_dict keeps the limits that are positive
WrapLimits == SeqsUpTo({1, 2}, MaxLimits)

InitWrap ==
    /\ InitRevealCommon
    /\ \E n \in 1..MaxWrapWords :
        \E sizes \in [1..n -> WordSizes] :
            /\ line_data = CaptionLine(0, 100, [k \in 1..n |-> WordTiming(k - 1, <<"a">>, 0, 100)],
                                       None)
            /\ word_infos = InfosOf(line_data.words, sizes)
    /\ \E lims \in WrapLimits, mode \in {"block", "per_word"} :
        config = RenderConfig(DefaultConfig.size_mapping, 0, 7, mode, lims)
    /\ segment_style = None
    /\ placements = <<DefaultPlacement>>
    /\ placements_by_segment = <<>>

NextWrap == DialoguesBlock \/ DialoguesPerWord

SpecWrap == InitWrap /\ [][NextWrap]_vars

\* the sub-lines of the emitted block, each the indexes of its words
WrappedLines ==
    LET subs == Flatten([k \in 1..Len(entries) |-> entries[k].text.lines])
    IN  [i \in 1..Len(subs) |-> [j \in 1..Len(subs[i]) |-> subs[i][j].word]]

\* C17: the sub-lines of a wrapped line, put end to end, are the line's words in order,
\* none dropped, doubled or moved; and wrapping that sequence again with the same
\* sizes and limits gives sub-lines of the same lengths.
C17_WrapIdempotent ==
    pc = "block" =>
        LET concat == Flatten(WrappedLines)
            words == line_data.words
        IN  /\ Len(concat) = Len(words)
            /\ \A k \in 1..Len(words) : concat[k] = words[k].index
            /\ LET rebuilt == [k \in 1..Len(concat) |->
                                CHOOSE w \in {words[j] : j \in 1..Len(words)} :
                                    w.index = concat[k]]
                   again == _layout_words_by_size(rebuilt, word_infos,
                                                  config.line_word_limits)
               IN  [i \in 1..Len(again) |-> Len(again[i])]
                    = [i \in 1..Len(WrappedLines) |-> Len(WrappedLines[i])]

\* a line wrapped into three sub-lines or more under a limit list, one of them of two
\* words
C17_Witness ==
    /\ pc = "block"
    /\ config.line_word_limits # <<>>
    /\ Len(WrappedLines) >= 3
    /\ \E i \in 1..Len(WrappedLines) : Len(WrappedLines[i]) >= 2

(***************************************************************************)
(* Claims about the write-on reveal times, checked under SpecReveal.       *)
(***************************************************************************)
\* a word index occurs twice in the line
HasRepeat ==
    \E i, j \in 1..Len(line_data.words) :
        i < j /\ line_data.words[i].index = line_data.words[j].index

\* the point (t / TickDen(N), P / (N * EpsDen)) lies on the normalized keyframe
\* curve: at the line's start when the progress is at most the first value, else on
\* the first segment whose values enclose the progress (at its later end when the
\* segment has no length or no rise)
OnCurve(t, P, N) ==
    LET frames == normalized
        Encloses(i) == /\ ValueLe(frames[i].value, P, N)
                       /\ ProgressLe(P, N, frames[i + 1].value)
    IN  /\ frames # <<>>
        /\ IF ProgressLe(P, N, frames[1].value) THEN t = line_data.start * TickDen(N)
           ELSE \E i \in 1..(Len(frames) - 1) :
                    /\ Encloses(i)
                    /\ \A j \in 1..(i - 1) : ~Encloses(j)
                    /\ LET span == frames[i + 1].time - frames[i].time
                           rise == frames[i + 1].value - frames[i].value
                       IN  IF span <= 0 \/ rise * EpsDen < ValueOne
                           THEN t = frames[i + 1].time * TickDen(N)
                           ELSE (t - frames[i].time * TickDen(N)) * rise
                                = (P * ValueOne - frames[i].value * N * EpsDen) * span
                                    * LcmUpTo(ValueOne)

\* every write-on entry starts where the curve reaches (c - 1 + shift + epsilon) / N,
\* c being the number of characters the entry's event shows
RevealsOnCurve(shift) ==
    pc = "write_on" =>
        \A k \in 1..Len(entries) :
            LET N == TotalChars(line_data.words)
                t == entries[k].start
            IN  \E c \in 1..N :
                    /\ ~HasRepeat => c = RevealedAt(t)
                    /\ OnCurve(t, (c - 1 + shift) * EpsDen + 1, N)

\* C18 as stated: the reveal time of the revealed-character count c is the inverse of
\* the normalized keyframe curve at progress (c + epsilon) / N.
C18_InverseAtCount == RevealsOnCurve(1)

\* C18, amended: the reveal time of the revealed-character count c is the inverse of
\* the normalized keyframe curve at progress (c - 1 + epsilon) / N.
C18_InverseBeforeCount == RevealsOnCurve(0)

\* an entry showing two characters or more starts strictly inside a rising segment
C18_Witness ==
    /\ pc = "write_on"
    /\ ~HasRepeat
    /\ \E k \in 1..Len(entries) :
        /\ RevealedAt(entries[k].start) >= 2
        /\ entries[k].start # line_data.start * tick
        /\ \A i \in 1..Len(normalized) : entries[k].start # normalized[i].time * tick

(***************************************************************************)
(* Claims about the rolling and the fixed-interval policy, checked under   *)
(* SpecGroup.                                                              *)
(***************************************************************************)
\* rolling emits one line per word, in word order; the line of word i holds the words
\* max(1, i - w + 1)..i, w being the window size raised to 1, and starts at word i's
\* start
RollingLines ==
    LET w == Max(display.rolling_window, 1)
    IN  /\ Len(caption_lines) = Len(Words)
        /\ \A i \in 1..Len(Words) :
            /\ caption_lines[i].words = SubSeq(Words, Max(1, i - w + 1), i)
            /\ caption_lines[i].start = Words[i].start

\* C19 as stated: the line of word i ends at the next word's start, or at word i's
\* own end when i is the last word.
C19_EndsAtNextStart ==
    pc = "rolling" =>
        /\ RollingLines
        /\ \A i \in 1..Len(Words) :
            caption_lines[i].end = IF i < Len(Words) THEN Words[i + 1].start
                                   ELSE Words[i].end

\* C19, amended: the line of word i ends at the later of word i's start and the next
\* word's start, or at word i's own end when i is the last word.
C19_EndsAtLaterStart ==
    pc = "rolling" =>
        /\ RollingLines
        /\ \A i \in 1..Len(Words) :
            caption_lines[i].end = IF i < Len(Words)
                                   THEN Max(Words[i].start, Words[i + 1].start)
                                   ELSE Words[i].end

\* three words under a window of two, the second word starting before the first
C19_Witness ==
    /\ pc = "rolling"
    /\ display.rolling_window = 2
    /\ Len(Words) = 3
    /\ Words[2].start < Words[1].start
    /\ Len(caption_lines[3].words) = 2

\* C20: fixed_interval splits the word sequence, in order, into non-empty lines;
\* with T' the interval raised to 0.1 s, every word of a line starts less than T'
\* after the line's first word, and the first word of every line after the first
\* starts T' or more after the first word of the line before it (it did not join).
C20_FixedIntervalPartition ==
    pc = "fixed_interval" =>
        LET T == Max(display.interval_seconds, MinInterval)
            Chunk(k) == caption_lines[k].words
        IN  /\ Flatten([k \in 1..Len(caption_lines) |-> Chunk(k)]) = Words
            /\ \A k \in 1..Len(caption_lines) :
                /\ Chunk(k) # <<>>
                /\ \A j \in 1..Len(Chunk(k)) : Chunk(k)[j].start < Chunk(k)[1].start + T
                /\ k > 1 => Chunk(k)[1].start >= Chunk(k - 1)[1].start + T

\* an interval below 0.1 s is raised: two words 50 ms apart share a line, and a later
\* word opens a second line
C20_Witness ==
    /\ pc = "fixed_interval"
    /\ display.interval_seconds < MinInterval
    /\ Len(caption_lines) >= 2
    /\ \E k \in 1..Len(caption_lines) :
        /\ Len(caption_lines[k].words) >= 2
        /\ caption_lines[k].words[2].start > caption_lines[k].words[1].start

(***************************************************************************)
(* Claims about manual windows matched by overlap, checked under SpecGroup.*)
(***************************************************************************)
\* the line's bounds and id are those of windows without word_ids only
FromUnpinned(line) ==
    LET same == {w \in 1..Len(display.windows) :
                    /\ display.windows[w].start = line.start
                    /\ display.windows[w].end = line.end
                    /\ display.windows[w].id = line.segment_id}
    IN  same # {} /\ \A w \in same : display.windows[w].word_ids = <<>>

\* C21 as stated: every word in the caption line of a manual window without word_ids
\* overlaps the window, word.end > window.start and word.start < window.end.
C21_WordsOverlapWindow ==
    pc = "manual" =>
        \A i \in 1..Len(caption_lines) :
            FromUnpinned(caption_lines[i]) =>
                \A k \in 1..Len(caption_lines[i].words) :
                    /\ caption_lines[i].words[k].end > caption_lines[i].start
                    /\ caption_lines[i].words[k].start < caption_lines[i].end

(***************************************************************************)
(* Claims about per-word reveal and its placement, checked under           *)
(* SpecReveal.                                                             *)
(***************************************************************************)
\* the position resolved for word m of the line
PositionOf(m) ==
    LET placement == _placement_for_line(line_data, placements, placements_by_segment,
                                         Max(line_data.start, line_data.words[m].start), 1)
    IN  <<placement.x, placement.y>>

\* the first word of the maximal run of consecutive words that ends at word i and
\* whose positions all equal word i's
RunFirst(i) ==
    CHOOSE j \in 1..i :
        /\ \A m \in j..i : PositionOf(m) = PositionOf(i)
        /\ \A h \in 1..(j - 1) : \E m \in h..i : PositionOf(m) # PositionOf(i)

RECURSIVE ShowsRuns(_, _)
\* from word i and entry e on, the entries are, word by word, one entry or one entry
\* per sub-line, starting when the word is revealed and showing the word's run
ShowsRuns(i, e) ==
    IF i > Len(line_data.words) THEN e > Len(entries)
    ELSE \E cnt \in 1..(Len(entries) - e + 1) :
            /\ Flatten([k \in 1..cnt |-> EntryWords(entries[e + k - 1])])
                = [k \in 1..(i - RunFirst(i) + 1) |->
                        line_data.words[RunFirst(i) + k - 1].index]
            /\ \A k \in 1..cnt :
                entries[e + k - 1].start = Max(line_data.start, line_data.words[i].start)
            /\ ShowsRuns(i + 1, e + cnt)

\* C22: in per-word reveal the entry of word i (the entries of its sub-lines, when
\* they are stacked) shows exactly the maximal run of consecutive words ending at
\* word i whose resolved position equals word i's; a line whose segment_id has a
\* segment-keyed placement shows the words 1..i.
C22_RunsOfOnePosition ==
    pc = "per_word" =>
        /\ ShowsRuns(1, 1)
        /\ (line_data.segment_id # None
                /\ (CHOOSE s \in line_data.segment_id : TRUE) \in DOMAIN placements_by_segment)
            => \A i \in 1..Len(line_data.words) : RunFirst(i) = 1

\* the position changed before an earlier word: the entry of a later word shows two
\* words or more, but not the first word of the line
C22_Witness ==
    /\ pc = "per_word"
    /\ \E i \in 1..Len(line_data.words) : RunFirst(i) > 1 /\ i > RunFirst(i)
    /\ \E k \in 1..Len(entries) :
        /\ Len(EntryWords(entries[k])) >= 2
        /\ EntryWords(entries[k])[1] # line_data.words[1].index

(***************************************************************************)
(* Claims about the write-on entries, checked under SpecReveal.            *)
(***************************************************************************)
\* the starts of the entries emitted after the reveal event that starts at s
LaterStarts(s) == {entries[j].start : j \in {k \in 1..Len(entries) : entries[k].start > s}}

\* C23 as stated: the entry of a write-on reveal event ends exactly at the reveal time
\* of the next event (at the line's end for the last event), so the entries of two
\* different reveal events of a line never overlap in time.
C23_EventSpansDisjoint ==
    pc = "write_on" =>
        \A i \in 1..Len(entries) :
            /\ entries[i].end = IF LaterStarts(entries[i].start) = {}
                                THEN line_data.end * tick
                                ELSE SetMin(LaterStarts(entries[i].start))
            /\ \A j \in 1..Len(entries) :
                entries[i].start < entries[j].start => entries[i].end <= entries[j].start

\* the tokens shown by the entries of the reveal event that starts at s, in order
EventTokens(s) ==
    Flatten([k \in 1..Len(entries) |->
                IF entries[k].start = s THEN Flatten(entries[k].text.lines) ELSE <<>>])

\* the length of the shortest prefix of the line's words whose texts hold c
\* characters or more
ShortestPrefix(c) ==
    CHOOSE n \in 1..Len(line_data.words) :
        /\ TotalChars(SubSeq(line_data.words, 1, n)) >= c
        /\ \A m \in 1..(n - 1) : TotalChars(SubSeq(line_data.words, 1, m)) < c

\* C24 as stated: a write-on entry revealing c characters shows the shortest prefix of
\* the line's words whose total length reaches c; every shown word but the last is
\* fully visible, the last one's visible prefix and hidden suffix make up the full
\* word, and exactly c characters are visible.
C24_ShortestPrefixShown ==
    pc = "write_on" =>
        \A e \in 1..Len(entries) :
            LET tokens == EventTokens(entries[e].start)
                c == RevealedAt(entries[e].start)
                n == ShortestPrefix(c)
            IN  /\ c \in 1..TotalChars(line_data.words)
                /\ Len(tokens) = n
                /\ \A k \in 1..n :
                    LET word == line_data.words[k]
                        markup == tokens[k].markup
                    IN  /\ tokens[k].word = word.index
                        /\ Unescaped(markup.text) \o Unescaped(markup.hidden) = word.text
                        /\ k < n => markup.hidden = <<>>

(***************************************************************************)
(* Claims about the wrap rule, checked under SpecWrap.                     *)
(***************************************************************************)
\* the position in the line of the first word of sub-line k
SubLineFirst(k) == 1 + SumTo([i \in 1..Len(WrappedLines) |-> Len(WrappedLines[i])], k - 1)
SizeAt(p) == word_infos[line_data.words[p].index].size

\* the word after position p of sub-line k must start a new sub-line: it is larger
\* than every word of the sub-line so far, or the sub-line already holds limits[k]
\* words
MustWrap(k, p) ==
    LET limits == config.line_word_limits
    IN  \/ \A q \in SubLineFirst(k)..p : SizeAt(p + 1) > SizeAt(q)
        \/ k <= Len(limits) /\ p - SubLineFirst(k) + 1 >= limits[k]

\* C25: a word starts a new sub-line exactly when it is larger than every word of the
\* current sub-line or the current sub-line already holds its limit of words; the
\* limit of sub-line k is limits[k], and a sub-line beyond the list has no limit.
C25_WrapRule ==
    pc = "block" =>
        \A k \in 1..Len(WrappedLines) :
            LET first == SubLineFirst(k)
                last == first + Len(WrappedLines[k]) - 1
            IN  /\ Len(WrappedLines[k]) >= 1
                /\ k <= Len(config.line_word_limits)
                    => Len(WrappedLines[k]) <= config.line_word_limits[k]
                /\ \A p \in first..last :
                    p < Len(line_data.words) => (p = last <=> MustWrap(k, p))

\* a sub-line beyond the list of limits holds more words than the last limit allows
C25_Witness ==
    /\ pc = "block"
    /\ config.line_word_limits # <<>>
    /\ \E k \in 1..Len(WrappedLines) :
        /\ k > Len(config.line_word_limits)
        /\ Len(WrappedLines[k]) > Last(config.line_word_limits)

(***************************************************************************)
(* Vertical stacking alone: a block under every alignment and under line   *)
(* spacings of 0, 2.5 and 5 points.                                        *)
(***************************************************************************)
StackSpacings == {0, 5, 10}
InitStack ==
    /\ InitRevealCommon
    /\ \E n \in 1..MaxWords :
        \E sizes \in [1..n -> WordSizes] :
            /\ line_data = CaptionLine(0, 100, [k \in 1..n |-> WordTiming(k - 1, <<"a">>, 0, 100)],
                                       None)
            /\ word_infos = InfosOf(line_data.words, sizes)
    /\ \E spacing \in StackSpacings, alignment \in 1..9, lims \in LimitLists :
        config = RenderConfig(DefaultConfig.size_mapping, spacing, alignment, "block", lims)
    /\ segment_style = None
    /\ placements = <<DefaultPlacement>>
    /\ placements_by_segment = <<>>

NextStack == DialoguesBlock

SpecStack == InitStack /\ [][NextStack]_vars

\* the height of the sub-line entry i shows: the largest size of its words
EntryHeight(i) == SetMax({word_infos[w].size : w \in {EntryWords(entries[i])[k] :
                                                        k \in 1..Len(EntryWords(entries[i]))}})
\* four times top + sum over j < i of (height_j + spacing), in points
StackOffset(i) ==
    LET spacing == EffectiveLineSpacing(config, segment_style)
        anchor == _placement_for_line(line_data, placements, placements_by_segment,
                                      line_data.start, 1).y
        total == SumTo([j \in 1..Len(entries) |-> EntryHeight(j)], Len(entries))
                    + spacing * (Len(entries) - 1)
        top == IF config.alignment \in 7..9 THEN 4 * anchor
               ELSE IF config.alignment \in 4..6 THEN 4 * anchor - total
               ELSE 4 * anchor - 2 * total
    IN  top + 2 * (SumTo([j \in 1..Len(entries) |-> EntryHeight(j)], i - 1)
                    + spacing * (i - 1))

\* stacking applies exactly when the line spacing is positive and the line renders as
\* several sub-lines: then one entry per sub-line, all with the same start, end and
\* x, else one entry holding all the sub-lines
StackedOrJoined ==
    /\ StackingApplies =>
            /\ Len(entries) = Len(LineSubLines)
            /\ \A i \in 1..Len(entries) :
                /\ entries[i].text.lines = <<LineSubLines[i]>>
                /\ entries[i].start = entries[1].start
                /\ entries[i].end = entries[1].end
                /\ entries[i].text.pos[1] = entries[1].text.pos[1]
    /\ ~StackingApplies =>
            /\ Len(entries) = 1
            /\ entries[1].text.lines = LineSubLines

\* C26 as stated: the entry of sub-line i of a stacked block is at
\* y_i = top + sum over j < i of (height_j + spacing).
C26_ExactOffsets ==
    pc = "block" =>
        /\ StackedOrJoined
        /\ StackingApplies =>
                \A i \in 1..Len(entries) : 4 * entries[i].text.pos[2] = StackOffset(i)

\* C26, amended: the entry of sub-line i of a stacked block is at y_i = top + sum over
\* j < i of (height_j + spacing), rounded to the nearest integer, a tie to the even
\* one.
C26_RoundedOffsets ==
    pc = "block" =>
        /\ StackedOrJoined
        /\ StackingApplies =>
                \A i \in 1..Len(entries) : entries[i].text.pos[2] = Round(StackOffset(i), 4)

\* a block centred on its anchor is stacked, and an offset is not a whole number
C26_Witness ==
    /\ pc = "block"
    /\ StackingApplies
    /\ config.alignment \in 4..6
    /\ \E i \in 1..Len(entries) : 4 * entries[i].text.pos[2] # StackOffset(i)

(***************************************************************************)
(* Claims about the effective size range, checked under SpecStyle.         *)
(***************************************************************************)
\* C27: for a line with a segment style, the effective size mapping has
\* min_size <= max_size; its bounds are the style's when it defines both, the base
\* mapping's when it defines none, and the style's bound with the base's other bound
\* when it defines one, the two being swapped when they come out reversed.
C27_EffectiveRangeOrdered ==
    (pc = "markups" /\ segment_style # None) =>
        LET st == CHOOSE x \in segment_style : TRUE
            base == config.size_mapping
            lo == IF st.size_min = None THEN base.min_size ELSE CHOOSE x \in st.size_min : TRUE
            hi == IF st.size_max = None THEN base.max_size ELSE CHOOSE x \in st.size_max : TRUE
        IN  /\ size_mapping.min_size <= size_mapping.max_size
            /\ size_mapping.min_size = Min(lo, hi)
            /\ size_mapping.max_size = Max(lo, hi)

\* a style that overrides only size_min, above the base maximum: the bounds are swapped
C27_Witness ==
    /\ pc = "markups"
    /\ segment_style # None
    /\ (CHOOSE x \in segment_style : TRUE).size_max = None
    /\ (CHOOSE x \in segment_style : TRUE).size_min = Some(size_mapping.max_size)
    /\ size_mapping.min_size = config.size_mapping.max_size
    /\ size_mapping.min_size < size_mapping.max_size

(***************************************************************************)
(* Segment style resolution: _segment_style_for_line, and lines 572-576 of *)
(* _build_dialogue_entries for one caption line.                           *)
(***************************************************************************)
MaxStyles == 2
\* a SegmentStyle with the fields the resolver reads; size_min tells two styles of
\* one id and one window apart
KeyedStyle(id, s, e, lo) ==
    [id |-> id, start |-> s, end |-> e] @@ SegmentStyle(lo, None, None, <<>>)

\* {style.id: style for style in segment_styles if style.id is not None}: a later
\* style of an id replaces an earlier one
segment_styles_by_id(styles) ==
    LET keyed == {k \in 1..Len(styles) : styles[k].id # None}
        ids == {CHOOSE i \in styles[k].id : TRUE : k \in keyed}
    IN  [i \in ids |-> styles[CHOOSE k \in keyed :
                                /\ styles[k].id = Some(i)
                                /\ \A j \in keyed : styles[j].id = Some(i) => j <= k]]

_segment_style_for_line(line, styles_by_id, styles) ==
    IF line.segment_id # None
    THEN LET i == CHOOSE x \in line.segment_id : TRUE
         IN  IF i \in DOMAIN styles_by_id THEN Some(styles_by_id[i]) ELSE None
    ELSE LET hits == {k \in 1..Len(styles) :
                        styles[k].start <= line.end /\ styles[k].end >= line.start}
         IN  IF hits = {} THEN None
             ELSE Some(styles[CHOOSE k \in hits : \A j \in hits : k <= j])

\* the style windows RenderConfig.from_dict keeps: a style without id only with
\* end > start; a style with an id with any window, [0, 0] when none is given
StyleIds == {None, Some(1), Some(2)}
StyleWindows == {<<0, 0>>, <<50, 150>>, <<200, 300>>, <<150, 50>>}
ParsedStyles ==
    {KeyedStyle(id, w[1], w[2], lo) :
        id \in StyleIds, lo \in {Some(50), Some(90)},
        w \in StyleWindows} \ {st \in
    {KeyedStyle(None, w[1], w[2], lo) : lo \in {Some(50), Some(90)}, w \in StyleWindows} :
        st.end <= st.start}
\* (start, end) of the caption line
ResolveSpans == {<<0, 40>>, <<100, 120>>, <<150, 200>>, <<40, 160>>}
ResolveLineIds == {None, Some(1), Some(3)}

InitResolve ==
    /\ pc = "config"
    /\ IdleGroup
    /\ display = DefaultDisplay
    /\ \E sp \in ResolveSpans, sid \in ResolveLineIds :
        line_data = CaptionLine(sp[1], sp[2], <<WordTiming(0, <<"a">>, sp[1], sp[2])>>, sid)
    /\ analysis = <<>>
    /\ \E styles \in SeqsUpTo(ParsedStyles, MaxStyles) :
        config = [segment_styles |-> styles] @@ DefaultConfig
    /\ segment_style = None
    /\ size_mapping = config.size_mapping
    /\ word_infos = <<>>
    /\ IdleReveal

ResolveSegmentStyle ==
    /\ pc = "config"
    /\ segment_style' = _segment_style_for_line(
            line_data, segment_styles_by_id(config.segment_styles), config.segment_styles)
    /\ pc' = "init"
    /\ UNCHANGED <<groupVars, line_data, config, styleVars, word_infos, revealVars>>

NextResolve == ResolveSegmentStyle \/ ComputeLineMarkups

SpecResolve == InitResolve /\ [][NextResolve]_vars

\* the closed intervals [st.start, st.end] and [line.start, line.end] share a point
Intersects(st, line) ==
    \E t \in {st.start, st.end, line.start, line.end} :
        /\ st.start <= t /\ t <= st.end
        /\ line.start <= t /\ t <= line.end

\* C28: a line with a segment_id receives the style whose id equals it, and no style
\* when no id matches; a line without segment_id receives the first style in list
\* order, with an id or not, whose [start, end] shares a point with the line's
\* [start, end], and no style when there is none.
C28_StyleResolution ==
    (pc # "config") =>
        LET styles == config.segment_styles
            ks == 1..Len(styles)
        IN  IF line_data.segment_id # None
            THEN IF \E k \in ks : styles[k].id = line_data.segment_id
                 THEN \E k \in ks : /\ styles[k].id = line_data.segment_id
                                    /\ segment_style = Some(styles[k])
                 ELSE segment_style = None
            ELSE LET hits == {k \in ks : Intersects(styles[k], line_data)}
                 IN  IF hits = {} THEN segment_style = None
                     ELSE \E k \in hits : /\ \A j \in hits : k <= j
                                          /\ segment_style = Some(styles[k])

RECURSIVE Truncated(_, _)
\* the sub-lines cut after their first n words; a sub-line left empty is dropped
Truncated(lines, n) ==
    IF lines = <<>> \/ n <= 0 THEN <<>>
    ELSE <<SubSeq(Head(lines), 1, Min(Len(Head(lines)), n))>>
         \o Truncated(Tail(lines), n - Len(Head(lines)))

\* the sub-lines of an entry, each the indexes of its words
EntrySubLines(entry) ==
    [i \in 1..Len(entry.text.lines) |->
        [j \in 1..Len(entry.text.lines[i]) |-> entry.text.lines[i][j].word]]

\* C29: the wrap is prefix-stable: the sub-lines of wrapping a prefix of the line's
\* words are the sub-lines of wrapping the whole line, cut to that prefix; in per-word
\* reveal the entry of word i shows the sub-lines of the last entry cut to i words, so
\* a break between two visible words never moves or disappears with a later word.
C29_WrapPrefixStable ==
    /\ pc = "block" =>
        \A n \in 0..Len(line_data.words) :
            LET part == _layout_words_by_size(SubSeq(line_data.words, 1, n), word_infos,
                                              config.line_word_limits)
            IN  [i \in 1..Len(part) |-> [j \in 1..Len(part[i]) |-> part[i][j].index]]
                    = Truncated(WrappedLines, n)
    /\ pc = "per_word" =>
        /\ Len(entries) = Len(line_data.words)
        /\ \A i \in 1..Len(entries) :
            EntrySubLines(entries[i]) = Truncated(EntrySubLines(entries[Len(entries)]), i)

\* per-word reveal of four words: the second word opens a second sub-line, and two
\* words are revealed after it
C29_Witness ==
    /\ pc = "per_word"
    /\ Len(entries) = 4
    /\ EntrySubLines(entries[2]) = <<<<0>>, <<1>>>>
    /\ Len(EntrySubLines(entries[4])) >= 3

(***************************************************************************)
(* Claims about the end of a write-on reveal, checked under SpecReveal.    *)
(***************************************************************************)
\* a line with end > start and a character or more, whose normalized keyframes end at
\* the value 1.0
RevealsFully ==
    /\ pc = "write_on"
    /\ line_data.end > line_data.start
    /\ TotalChars(line_data.words) >= 1
    /\ normalized # <<>>
    /\ Last(normalized).value = ValueOne

====
